---- MODULE Spec2Model ----
(***************************************************************************)
(* A state-machine model of the randlebrot world generator:                *)
(*   - the three-tier chunk cache (rb_noise/src/chunk_hierarchy.rs),       *)
(*   - the per-cell accessors of the biome, resource and territory maps,   *)
(*   - the lock-free layer progress counters,                              *)
(*   - the civilization generator (rb_world/src/civilization.rs).          *)
(* Every subsystem has its own specification over the shared variables;    *)
(* the variables a specification does not touch keep their initial value.  *)
(***************************************************************************)
EXTENDS Integers, Sequences, FiniteSets, TLC

None == "None"

Min(S) == CHOOSE m \in S : \A n \in S : m <= n

Max(S) == CHOOSE m \in S : \A n \in S : m >= n

(***************************************************************************)
(* CHUNK HIERARCHY                                                         *)
(***************************************************************************)

\* Largest capacity a tier is configured with (CacheConfig fields are any usize).
MaxCacheSize == 2

\* Last reading of the monotonic clock that the model distinguishes.
MaxClock == 2

\* Number of cache operations in one behaviour of SpecCache.
MaxOps == 4

\* Number of sample calls in one behaviour of SpecSample.
MaxSamples == 4

\* World coordinates are f64. The positions handed to sample are held in
\* units of 1/Frac, a resolution an f64 keeps at the magnitude of a chunk size.
Frac == 2

\* An f64 resolves finer the smaller the value. The model gives it two
\* resolutions: 1/(Frac * Fine) below half a macro chunk, 1/Frac from there on.
Fine == 4

MacroChunk_SIZE == 32

MesoChunk_SIZE == 64

MicroChunk_SIZE == 128

DetailLevels == {"Macro", "Meso", "Micro"}

\* The two strategies a WorldChunks resource owns.
Strategies == {"Continentalness", "Temperature"}

\* SpecCache drives a hierarchy the way WorldChunks does, always with the one
\* strategy the hierarchy was made for; SpecSample passes either strategy.
OwnStrategies == {"Continentalness"}

\* Chunk coordinates handed to get_macro / get_meso / get_micro.
ChunkCoords == {<<cx, 0>> : cx \in 0..1}

\* World positions handed to sample, in units of 1/Frac: -1/Frac and 32 on the
\* x axis, 0 on the y axis. They fall in chunks -1 and 1 of the macro tier and
\* in chunks -1 and 0 of the meso and micro tiers.
SampleXs == {-1, MacroChunk_SIZE * Frac}

SampleYs == {0}

as_u32(level) == CASE level = "Macro" -> 0 [] level = "Meso" -> 1 [] level = "Micro" -> 2

ChunkSize(level) ==
    CASE level = "Macro" -> MacroChunk_SIZE
      [] level = "Meso" -> MesoChunk_SIZE
      [] level = "Micro" -> MicroChunk_SIZE

\* The seed offset WorldChunks gives each strategy.
StrategySeed(strategy) == IF strategy = "Continentalness" THEN 0 ELSE 1

\* NoiseStrategy::generate is a pure function of (strategy, x, y, detail level);
\* the model keeps it as a fixed function whose value depends on every argument.
Generate(strategy, wx, wy, detail) ==
    (StrategySeed(strategy) * 5 + wx * 3 + wy * 7 + detail * 2) % 11

VARIABLES
    config,        \* CacheConfig: the three capacities
    macro_chunks,  \* ChunkHierarchy.macro_chunks : coord -> chunk
    meso_chunks,   \* MesoCache.chunks
    micro_chunks,  \* MicroCache.chunks
    now,           \* the last reading of Instant::now()
    ops,           \* operations performed so far
    limit,         \* operations one behaviour performs
    touched,       \* history: per tier, coord -> clock reading of its latest touch
    lastEvict,     \* history: the eviction of the latest operation, if any
    firstSample,   \* history: arguments and value of the first recorded sample call
    lastSample     \* history: the value the latest recorded sample call returned,
                   \* if its arguments were those of the first one

cacheVars == <<config, macro_chunks, meso_chunks, micro_chunks, now, ops, limit,
               touched, lastEvict, firstSample, lastSample>>

Empty == [c \in {} |-> None]

Remove(chunks, key) == [c \in (DOMAIN chunks) \ {key} |-> chunks[c]]

Insert(chunks, key, chunk) ==
    [c \in (DOMAIN chunks) \cup {key} |-> IF c = key THEN chunk ELSE chunks[c]]

\* Instant::now() is monotonic but not strictly so: a reading repeats the
\* previous one or is later.
Readings(t) == {t} \cup (IF t < MaxClock THEN {t + 1} ELSE {})

\* MacroChunk::new / MesoChunk::new / MicroChunk::new. The sample buffer is
\* generate(world_offset + (x, y), level) for every local cell, so the chunk
\* is kept as the strategy that filled it; ChunkGet reads one entry.
NewChunk(strategy, t) == [strategy |-> strategy, last_accessed |-> t]

\* A touch that leaves last_accessed at the creation time.
touch_stale(chunk, t) == chunk

touch(chunk, t) == [chunk EXCEPT !.last_accessed = t]

coord_to_world_offset(coord, chunk_size) == <<coord[1] * chunk_size, coord[2] * chunk_size>>

\* chunk.get(x, y) = data[y * SIZE + x], the value new() stored for that cell.
ChunkGet(chunk, coord, level, lx, ly) ==
    LET off == coord_to_world_offset(coord, ChunkSize(level))
    IN  Generate(chunk.strategy, off[1] + lx, off[2] + ly, as_u32(level))

\* f64 remainder (the sign follows the dividend).
FRem(a, b) == IF a >= 0 THEN a % b ELSE -((-a) % b)

\* The unit of world_to_chunk's arithmetic is 1/Unit.
Unit == Frac * Fine

\* The magnitude from which an f64 is a multiple of 1/Frac.
ExactBelow == (MacroChunk_SIZE \div 2) * Unit

\* The values an f64 can hold.
Representable(w) == (-ExactBelow < w /\ w < ExactBelow) \/ w % Fine = 0

\* The f64 nearest to v, ties to the even one: the result of an f64 operation
\* whose exact result is v.
RoundF64(v) ==
    LET lo == (v \div Fine) * Fine
        hi == lo + Fine
    IN  IF Representable(v) THEN v
        ELSE IF 2 * (v - lo) < Fine THEN lo
        ELSE IF 2 * (v - lo) > Fine THEN hi
        ELSE IF (lo \div Fine) % 2 = 0 THEN lo ELSE hi

\* One axis of world_to_chunk; w is the world coordinate in units of 1/Unit.
\* The division by a chunk size, a power of two, and the remainder are exact
\* in f64; the sum is rounded.
ChunkAxis(w, chunk_size) == w \div (chunk_size * Unit)

LocalAxis(w, chunk_size) ==
    (RoundF64(FRem(w, chunk_size * Unit) + chunk_size * Unit) \div Unit) % chunk_size

world_to_chunk(x, y, chunk_size) ==
    [coord |-> <<ChunkAxis(x, chunk_size), ChunkAxis(y, chunk_size)>>,
     local_x |-> LocalAxis(x, chunk_size),
     local_y |-> LocalAxis(y, chunk_size)]

\* min_by_key over a HashMap: the first minimum in iteration order, which is
\* any of the chunks sharing the smallest last_accessed.
Oldest(chunks) ==
    {k \in DOMAIN chunks :
        \A c \in DOMAIN chunks : chunks[k].last_accessed <= chunks[c].last_accessed}

\* Eviction that waits until the tier holds more than max_size chunks.
evict_if_over(chunks, max_size) ==
    IF Cardinality(DOMAIN chunks) > max_size /\ DOMAIN chunks # {}
    THEN {[chunks |-> Remove(chunks, k), evicted |-> {k}] : k \in Oldest(chunks)}
    ELSE {[chunks |-> chunks, evicted |-> {}]}

\* evict_if_needed (and evict_macro_if_needed): the possible results. With no
\* chunk held min_by_key yields nothing and nothing is removed.
evict_if_needed(chunks, max_size) ==
    IF Cardinality(DOMAIN chunks) >= max_size /\ DOMAIN chunks # {}
    THEN {[chunks |-> Remove(chunks, k), evicted |-> {k}] : k \in Oldest(chunks)}
    ELSE {[chunks |-> chunks, evicted |-> {}]}

\* get_or_create: the possible outcomes of one call made when the clock last
\* read t. On a miss the clock is read by new() and again by touch().
get_or_create(chunks, max_size, coord, strategy, t) ==
    IF coord \notin DOMAIN chunks
    THEN UNION {UNION {
            {[chunks |-> [Insert(e.chunks, coord, NewChunk(strategy, t1))
                            EXCEPT ![coord] = touch(@, t2)],
              before |-> chunks, evicted |-> e.evicted, hit |-> FALSE, now |-> t2] :
                e \in evict_if_needed(chunks, max_size)} :
            t2 \in Readings(t1)} : t1 \in Readings(t)}
    ELSE {[chunks |-> [chunks EXCEPT ![coord] = touch(@, t2)],
           before |-> chunks, evicted |-> {}, hit |-> TRUE, now |-> t2] :
            t2 \in Readings(t)}

TierChunks(level) ==
    CASE level = "Macro" -> macro_chunks
      [] level = "Meso" -> meso_chunks
      [] level = "Micro" -> micro_chunks

TierCapacity(level) ==
    CASE level = "Macro" -> config.macro_cache_size
      [] level = "Meso" -> config.meso_cache_size
      [] level = "Micro" -> config.micro_cache_size

\* ChunkHierarchy::stats
stats ==
    [macro_chunks |-> Cardinality(DOMAIN macro_chunks),
     meso_chunks |-> Cardinality(DOMAIN meso_chunks),
     micro_chunks |-> Cardinality(DOMAIN micro_chunks)]

\* The state change of one get_or_create call on a tier with outcome o.
Access(level, coord, o) ==
    /\ macro_chunks' = IF level = "Macro" THEN o.chunks ELSE macro_chunks
    /\ meso_chunks' = IF level = "Meso" THEN o.chunks ELSE meso_chunks
    /\ micro_chunks' = IF level = "Micro" THEN o.chunks ELSE micro_chunks
    /\ now' = o.now
    /\ ops' = ops + 1
    /\ touched' = [touched EXCEPT ![level] =
            [c \in ((DOMAIN @) \ o.evicted) \cup {coord} |->
                IF c = coord THEN o.now ELSE @[c]]]
    /\ lastEvict' =
            IF o.evicted = {} THEN <<>>
            ELSE <<[tier |-> level,
                    victimTouch |-> Max({touched[level][k] : k \in o.evicted}),
                    survivorTouches |->
                        {touched[level][c] : c \in (DOMAIN o.before) \ o.evicted}]>>
    /\ UNCHANGED <<config, limit>>

GetMacro(coord, strategy) ==
    /\ ops < limit
    /\ \E o \in get_or_create(macro_chunks, config.macro_cache_size, coord, strategy, now) :
            Access("Macro", coord, o)
    /\ UNCHANGED <<firstSample, lastSample>>

GetMeso(coord, strategy) ==
    /\ ops < limit
    /\ \E o \in get_or_create(meso_chunks, config.meso_cache_size, coord, strategy, now) :
            Access("Meso", coord, o)
    /\ UNCHANGED <<firstSample, lastSample>>

GetMicro(coord, strategy) ==
    /\ ops < limit
    /\ \E o \in get_or_create(micro_chunks, config.micro_cache_size, coord, strategy, now) :
            Access("Micro", coord, o)
    /\ UNCHANGED <<firstSample, lastSample>>

\* The chunk a sample call reads and the local cell it reads in it.
SampleCell(x, y, level) == world_to_chunk(x * Fine, y * Fine, ChunkSize(level))

\* ChunkHierarchy::sample: the value returned when the access had outcome o.
SampleValue(x, y, level, o) ==
    LET w == SampleCell(x, y, level)
    IN  ChunkGet(o.chunks[w.coord], w.coord, level, w.local_x, w.local_y)

\* ChunkHierarchy::sample
Sample(x, y, level, strategy) ==
    /\ ops < limit
    /\ \E o \in get_or_create(TierChunks(level), TierCapacity(level),
                               SampleCell(x, y, level).coord, strategy, now) :
            Access(level, SampleCell(x, y, level).coord, o)
    /\ UNCHANGED <<firstSample, lastSample>>

SampleArgs(s) == <<s.x, s.y, s.level, s.strategy>>

\* ChunkHierarchy::sample, with the arguments and the returned value recorded.
ObservedSample(x, y, level, strategy) ==
    /\ ops < limit
    /\ \E o \in get_or_create(TierChunks(level), TierCapacity(level),
                               SampleCell(x, y, level).coord, strategy, now) :
            /\ Access(level, SampleCell(x, y, level).coord, o)
            /\ LET s == [x |-> x, y |-> y, level |-> level, strategy |-> strategy,
                         value |-> SampleValue(x, y, level, o)]
               IN  /\ firstSample' = IF firstSample = <<>> THEN <<s>> ELSE firstSample
                   /\ lastSample' =
                        IF firstSample = <<>> \/ SampleArgs(firstSample[1]) = SampleArgs(s)
                        THEN <<s.value>> ELSE <<>>

\* ChunkHierarchy::clear
Clear ==
    /\ ops < limit
    /\ macro_chunks' = Empty
    /\ meso_chunks' = Empty
    /\ micro_chunks' = Empty
    /\ touched' = [l \in DetailLevels |-> Empty]
    /\ ops' = ops + 1
    /\ lastEvict' = <<>>
    /\ UNCHANGED <<config, limit, now, firstSample, lastSample>>

\* ChunkHierarchy::new(config)
HierarchyNew(cfg) ==
    /\ config = cfg
    /\ macro_chunks = Empty
    /\ meso_chunks = Empty
    /\ micro_chunks = Empty
    /\ now = 0
    /\ ops = 0
    /\ touched = [l \in DetailLevels |-> Empty]
    /\ lastEvict = <<>>
    /\ firstSample = <<>>
    /\ lastSample = <<>>

CacheConfig(macro, meso, micro) ==
    [macro_cache_size |-> macro, meso_cache_size |-> meso, micro_cache_size |-> micro]

\* The three tiers sized alike, up to MaxCacheSize: a tier's chunks depend on
\* no other tier's capacity.
CacheInit ==
    /\ \E size \in 0..MaxCacheSize : HierarchyNew(CacheConfig(size, size, size))
    /\ limit = MaxOps

\* The three tiers sized alike, up to MaxCacheSize.
SampleInit ==
    /\ \E size \in 0..MaxCacheSize : HierarchyNew(CacheConfig(size, size, size))
    /\ limit = MaxSamples

(***************************************************************************)
(* WORLD TO CHUNK                                                          *)
(*                                                                         *)
(* world_to_chunk on any f64 world position within a macro chunk and a bit *)
(* of the origin, for the chunk size of each tier.                         *)
(***************************************************************************)

\* World x coordinates, in units of 1/Unit.
WorldXs ==
    {w \in (-(MacroChunk_SIZE + 2) * Unit)..((MacroChunk_SIZE + 2) * Unit) :
        Representable(w)}

WorldYs == {-Unit, 0}

VARIABLES
    world_pos,   \* a world position and a chunk size
    converted    \* what world_to_chunk returned for it

coordVars == <<world_pos, converted>>

CoordsInit ==
    /\ world_pos \in [x : WorldXs, y : WorldYs,
                       chunk_size : {ChunkSize(level) : level \in DetailLevels}]
    /\ converted = <<>>

\* world_to_chunk
WorldToChunk ==
    /\ converted = <<>>
    /\ converted' = <<world_to_chunk(world_pos.x, world_pos.y, world_pos.chunk_size)>>
    /\ UNCHANGED world_pos

(***************************************************************************)
(* CIVILIZATION GENERATOR                                                  *)
(*                                                                         *)
(* Biome maps are one row high, so the 8-connected grid the road builder   *)
(* searches has a single simple path between two cells. Suitability is     *)
(* held in hundredths and influence in units of 1/InfluenceScale.          *)
(***************************************************************************)

\* Width of the biome maps.
MapWidth == 113

\* Largest max_settlements a run is configured with.
MaxSettlements == 3

\* Number of generate calls made on one world definition.
MaxRuns == 2

\* Influence 1.0 in the model's fixed-point units.
InfluenceScale == 10000

MIN_SETTLEMENT_DISTANCE == 40

\* SETTLEMENT_THRESHOLD (0.3), in hundredths.
SETTLEMENT_THRESHOLD == 30

\* The sampling step place_settlements hands to find_local_maxima.
CandidateStep == 8

MAX_ITERATIONS == 200

WaterBiomes == {"Sea", "White"}

\* CultureType::all()
CultureType_all == <<"TwilightDweller", "FrostKin", "SunForged", "TideWalker", "StoneBorn">>

\* CultureTraits.settlement_spacing of the five default cultures.
settlement_spacing(culture_type) ==
    CASE culture_type = "TwilightDweller" -> 60
      [] culture_type = "FrostKin" -> 100
      [] culture_type = "SunForged" -> 90
      [] culture_type = "TideWalker" -> 50
      [] culture_type = "StoneBorn" -> 80

\* terrain_influence_decay, in hundredths.
terrain_influence_decay(biome) ==
    CASE biome \in {"Sea", "White"} -> 0
      [] biome = "Mountain" -> 30
      [] biome = "Plateau" -> 50
      [] biome = "Snow" -> 60
      [] biome \in {"Desert", "Sahara"} -> 70
      [] biome = "Forest" -> 80
      [] biome = "Beach" -> 90
      [] biome = "Plains" -> 95

\* terrain_movement_cost is finite for every biome but Sea and White.
cost_is_finite(biome) == biome \notin WaterBiomes

\* TradeGood::from_biome
TradeGood_from_biome(biome) ==
    CASE biome = "Plains" -> <<"Food", "Textiles">>
      [] biome = "Forest" -> <<"Timber", "Furs">>
      [] biome = "Mountain" -> <<"Ore", "Weapons">>
      [] biome = "Plateau" -> <<"Ore", "Food">>
      [] biome = "Beach" -> <<"Fish", "Salt">>
      [] biome = "Sea" -> <<"Fish">>
      [] biome = "Desert" -> <<"Salt", "Luxury">>
      [] biome = "Sahara" -> <<"Luxury">>
      [] biome = "Snow" -> <<"Furs">>
      [] biome = "White" -> <<"Fish", "Furs">>

\* A biome map of one row; only the biome layer is read by the generator
\* once the candidates are known.
OneRowMap(cells) == [width |-> Len(cells), height |-> 1, biome |-> cells]

\* BiomeMap::get_biome: the biome of an in-bounds cell, nothing otherwise.
get_biome(map, x, y) ==
    IF x < map.width /\ y < map.height THEN <<map.biome[y * map.width + x + 1]>> ELSE <<>>

\* The biome maps of the model: desert throughout; desert cut by a strip of
\* sea between the first two sites; forest with beaches at the later sites
\* and a mountain between them.
MapPatterns == {"Desert", "DesertSeaStrip", "ForestBeach"}

PatternBiome(pattern, x) ==
    CASE pattern = "Desert" -> "Desert"
      [] pattern = "DesertSeaStrip" -> IF x \in 28..30 THEN "Sea" ELSE "Desert"
      [] pattern = "ForestBeach" ->
            IF x \in {56, 112} THEN "Beach" ELSE IF x = 80 THEN "Mountain" ELSE "Forest"

MapOf(pattern) == OneRowMap([i \in 1..MapWidth |-> PatternBiome(pattern, i - 1)])

\* The sampled positions at which the model lets find_local_maxima report a
\* candidate.
SiteXs == {x \in {0, 56, 112} : x < MapWidth /\ x % CandidateStep = 0}

\* The (culture, suitability) a candidate may carry; every suitability
\* exceeds SETTLEMENT_THRESHOLD.
CandidateKinds ==
    {k \in {<<"TideWalker", 60>>, <<"TwilightDweller", 60>>, <<"TideWalker", 80>>} :
        k[2] > SETTLEMENT_THRESHOLD}

SetToSeq(S) ==
    LET n == Cardinality(S)
    IN  [i \in 1..n |-> CHOOSE x \in S : Cardinality({z \in S : z < x}) = i - 1]

\* The results find_local_maxima may give on a map: the candidates in scan
\* order (x ascending), each on a sampled land cell and of one kind.
CandidateLists(map) ==
    LET land == {x \in SiteXs : get_biome(map, x, 0) # <<>> /\
                                get_biome(map, x, 0)[1] \notin WaterBiomes}
    IN  UNION {
          {[i \in 1..Cardinality(chosen) |->
               [position |-> <<SetToSeq(chosen)[i], 0>>,
                suitability |-> kind[SetToSeq(chosen)[i]][2],
                culture_type |-> kind[SetToSeq(chosen)[i]][1],
                biome |-> get_biome(map, SetToSeq(chosen)[i], 0)[1]]] :
             kind \in [chosen -> CandidateKinds]} :
          chosen \in SUBSET land}

\* ---- settlement placement (settlement_placement.rs) ----

\* The squared distance between two positions; dist < d is Dist2 < d * d.
Dist2(a, b) == (a[1] - b[1]) * (a[1] - b[1]) + (a[2] - b[2]) * (a[2] - b[2])

\* A spacing check against the floor, whatever distance is asked for.
respects_spacing_floor(settlements, pos, min_distance) ==
    \A i \in DOMAIN settlements :
        ~(Dist2(settlements[i].position, pos)
              < MIN_SETTLEMENT_DISTANCE * MIN_SETTLEMENT_DISTANCE)

respects_spacing(settlements, pos, min_distance) ==
    \A i \in DOMAIN settlements :
        ~(Dist2(settlements[i].position, pos) < min_distance * min_distance)

determine_tier(suitability, is_capital, candidate) ==
    IF is_capital THEN "Capital"
    ELSE IF suitability > 70 THEN "Town"
    ELSE IF suitability > 50
         THEN (IF candidate.biome = "Beach" THEN "Town" ELSE "Village")
         ELSE "Village"

\* rng.gen_range(0..len): the draw-th number of the generator seeded with seed.
gen_range(seed, draw, len) == (seed * 7 + draw * 3) % len

\* generate_name: the culture, biome and tier select the word lists and three
\* draws select the words.
generate_name(culture, biome, tier, seed, draws) ==
    <<culture, biome, tier,
      gen_range(seed, draws, 4), gen_range(seed, draws + 1, 4), gen_range(seed, draws + 2, 4)>>

City_new(id, name, position, tier) ==
    [id |-> id, name |-> name, position |-> position, tier |-> tier,
     is_authored |-> (tier = "Capital")]

RECURSIVE InsertBySuitability(_, _)
\* Places c behind every element whose suitability is not smaller.
InsertBySuitability(sorted, c) ==
    IF sorted = <<>> THEN <<c>>
    ELSE IF Head(sorted).suitability >= c.suitability
         THEN <<Head(sorted)>> \o InsertBySuitability(Tail(sorted), c)
         ELSE <<c>> \o sorted

RECURSIVE StableSortDescending(_)
StableSortDescending(cands) ==
    IF cands = <<>> THEN <<>>
    ELSE InsertBySuitability(StableSortDescending(SubSeq(cands, 1, Len(cands) - 1)),
                             cands[Len(cands)])

\* A sort that may leave candidates of equal suitability in any order.
sort_unstable_by(cands) ==
    {[i \in DOMAIN cands |-> cands[f[i]]] : f \in
        {g \in Permutations(DOMAIN cands) :
            \A i, j \in DOMAIN cands :
                i < j => cands[g[i]].suitability >= cands[g[j]].suitability}}

\* candidates.sort_by(|a, b| b.suitability.partial_cmp(&a.suitability)): the
\* orders the sort may produce. The sort is stable, so there is one.
sort_by(cands) == {StableSortDescending(cands)}

RECURSIVE PlaceLoop(_, _, _, _)
\* The placement loop of place_settlements over the sorted candidates; st holds
\* the loop's variables.
PlaceLoop(cands, max_settlements, seed, st) ==
    IF cands = <<>> \/ Len(st.settlements) >= max_settlements THEN st
    ELSE LET candidate == Head(cands)
             min_dist == Max({settlement_spacing(candidate.culture_type),
                              MIN_SETTLEMENT_DISTANCE})
         IN  IF ~respects_spacing(st.settlements, candidate.position, min_dist)
             THEN PlaceLoop(Tail(cands), max_settlements, seed, st)
             ELSE LET is_capital == candidate.culture_type \notin st.has_capital
                      city_tier == determine_tier(candidate.suitability, is_capital,
                                                  candidate)
                      city_name == generate_name(candidate.culture_type, candidate.biome,
                                                 city_tier, seed, st.draws)
                  IN  PlaceLoop(Tail(cands), max_settlements, seed,
                        [settlements |->
                            Append(st.settlements,
                                   City_new(st.next_id, city_name, candidate.position,
                                            city_tier)),
                         has_capital |->
                            IF is_capital
                            THEN st.has_capital \cup {candidate.culture_type}
                            ELSE st.has_capital,
                         placed_cultures |->
                            Append(st.placed_cultures, candidate.culture_type),
                         next_id |-> st.next_id + 1,
                         draws |-> st.draws + 3])

\* place_settlements, given the candidates find_local_maxima found and the
\* order the sort left them in.
place_settlements(sorted, max_settlements, seed) ==
    PlaceLoop(sorted, max_settlements, seed,
              [settlements |-> <<>>, has_capital |-> {}, placed_cultures |-> <<>>,
               next_id |-> 1, draws |-> 0])

\* ---- factions (civilization.rs, faction.rs) ----

Faction_new(id, culture) ==
    [id |-> id, culture |-> culture, capital_id |-> <<>>, settlement_ids |-> <<>>]

InSeq(seq, v) == \E i \in DOMAIN seq : seq[i] = v

add_settlement(faction, city_id) ==
    IF InSeq(faction.settlement_ids, city_id) THEN faction
    ELSE [faction EXCEPT !.settlement_ids = Append(@, city_id)]

set_capital(faction, city_id) ==
    add_settlement([faction EXCEPT !.capital_id = <<city_id>>], city_id)

\* The capital candidate create_factions looks for: the first Capital, or
\* failing that the first Town, among all cities.
capital_candidate(cities) ==
    LET capitals == {i \in DOMAIN cities : cities[i].tier = "Capital"}
        towns == {i \in DOMAIN cities : cities[i].tier = "Town"}
    IN  IF capitals # {} THEN <<cities[Min(capitals)]>>
        ELSE IF towns # {} THEN <<cities[Min(towns)]>>
        ELSE <<>>

RECURSIVE FoundFactions(_, _, _)
\* The loop over CultureType::all(): a faction for the culture when the
\* candidate search over the cities finds one.
FoundFactions(cultures, cities, factions) ==
    IF cultures = <<>> THEN factions
    ELSE FoundFactions(Tail(cultures), cities,
            IF capital_candidate(cities) # <<>>
            THEN Append(factions, Faction_new(Len(factions) + 1, Head(cultures)))
            ELSE factions)

RECURSIVE AssignCities_by_id(_, _, _)
\* A round-robin over the city ids instead of the positions in the list.
AssignCities_by_id(cities, i, factions) ==
    IF i > Len(cities) THEN factions
    ELSE LET city == cities[i]
             faction_idx == (city.id % Len(factions)) + 1
             joined == add_settlement(factions[faction_idx], city.id)
             crowned == IF city.tier = "Capital" /\ joined.capital_id = <<>>
                        THEN set_capital(joined, city.id) ELSE joined
         IN  AssignCities_by_id(cities, i + 1, [factions EXCEPT ![faction_idx] = crowned])

RECURSIVE AssignCities(_, _, _)
\* The round-robin loop: city number i (from 0) joins faction i % len.
AssignCities(cities, i, factions) ==
    IF i > Len(cities) THEN factions
    ELSE LET city == cities[i]
             faction_idx == ((i - 1) % Len(factions)) + 1
             joined == add_settlement(factions[faction_idx], city.id)
             crowned == IF city.tier = "Capital" /\ joined.capital_id = <<>>
                        THEN set_capital(joined, city.id) ELSE joined
         IN  AssignCities(cities, i + 1, [factions EXCEPT ![faction_idx] = crowned])

\* Faction creation without the capital.is_some() test.
create_factions_unchecked(cities) ==
    [k \in DOMAIN CultureType_all |-> Faction_new(k, CultureType_all[k])]

create_factions(cities) ==
    LET factions == FoundFactions(CultureType_all, cities, <<>>)
    IN  IF factions # <<>> THEN AssignCities(cities, 1, factions) ELSE factions

\* ---- roads and trade routes (civilization.rs) ----

CityById(cities, id) == cities[CHOOSE i \in DOMAIN cities : cities[i].id = id]

\* The cells of the row from x1 towards x2, both included.
RowPath(x1, x2) ==
    IF x1 <= x2 THEN [i \in 1..(x2 - x1 + 1) |-> <<x1 + i - 1, 0>>]
    ELSE [i \in 1..(x1 - x2 + 1) |-> <<x1 - i + 1, 0>>]

\* astar over the successors find_path generates: the in-bounds neighbours
\* whose movement cost is finite. On a map of one row the only route runs
\* along the row, and exists when every cell after the start is passable.
astar(map, start, goal) ==
    LET path == RowPath(start[1], goal[1])
    IN  IF \A i \in 2..Len(path) :
              /\ get_biome(map, path[i][1], path[i][2]) # <<>>
              /\ cost_is_finite(get_biome(map, path[i][1], path[i][2])[1])
        THEN <<path>> ELSE <<>>

\* One turn of the loop of simplify_path, at index i; acc holds prev_dir and
\* result.
SimplifyStep(path, acc, i) ==
    LET dir == <<path[i][1] - path[i - 1][1], path[i][2] - path[i - 1][2]>>
    IN  IF dir # acc.prev_dir
        THEN [prev_dir |-> dir, result |-> Append(acc.result, path[i - 1])]
        ELSE acc

RECURSIVE SimplifyRange(_, _, _, _)
\* The turns of the loop for the indices lo .. hi - 1, in order: the second
\* half of the range starts from what the first half has left.
SimplifyRange(path, acc, lo, hi) ==
    IF hi <= lo THEN acc
    ELSE IF hi = lo + 1 THEN SimplifyStep(path, acc, lo)
    ELSE CHOOSE done \in {SimplifyRange(path, half, (lo + hi) \div 2, hi) :
                            half \in {SimplifyRange(path, acc, lo, (lo + hi) \div 2)}} : TRUE

simplify_path(path) ==
    IF Len(path) < 2 THEN path
    ELSE Append(SimplifyRange(path, [prev_dir |-> <<0, 0>>, result |-> <<path[1]>>],
                              2, Len(path) + 1).result,
                path[Len(path)])

\* A road builder that gives up on a pair without a route.
find_path_or_nothing(map, from, to) ==
    LET found == astar(map, from, to)
    IN  IF found # <<>> THEN simplify_path(found[1]) ELSE <<>>

find_path(map, from, to) ==
    LET result == astar(map, from, to)
    IN  IF result # <<>> THEN simplify_path(result[1]) ELSE <<from, to>>

\* determine_road_type with the Capital-Town arm in that order only.
determine_road_type_ordered(tier_a, tier_b) ==
    CASE tier_a = "Capital" /\ tier_b = "Capital" -> "Imperial"
      [] tier_a = "Capital" /\ tier_b = "Town" -> "Provincial"
      [] tier_a = "Town" /\ tier_b = "Town" -> "Provincial"
      [] OTHER -> "Trail"

determine_road_type(tier_a, tier_b) ==
    CASE tier_a = "Capital" /\ tier_b = "Capital" -> "Imperial"
      [] {tier_a, tier_b} = {"Capital", "Town"} -> "Provincial"
      [] tier_a = "Town" /\ tier_b = "Town" -> "Provincial"
      [] OTHER -> "Trail"

\* The squared distance between the two cities of a pair of ids.
PairDist2(cities, pair) ==
    Dist2(CityById(cities, pair[1]).position, CityById(cities, pair[2]).position)

\* The first pair in loop order, whatever its distance.
best_pair_in_order(cities, connected, unconnected) ==
    <<connected[1], unconnected[1]>>

\* The pair the nested loops of generate_roads settle on: the first, in loop
\* order, of the (connected, unconnected) pairs at the smallest distance.
best_pair(cities, connected, unconnected) ==
    LET n == Len(unconnected)
        pairs == [k \in 1..(Len(connected) * n) |->
                    <<connected[((k - 1) \div n) + 1], unconnected[((k - 1) % n) + 1]>>]
    IN  pairs[Min({k \in DOMAIN pairs :
                    \A j \in DOMAIN pairs :
                        PairDist2(cities, pairs[k]) <= PairDist2(cities, pairs[j])})]

RemoveId(ids, id) == SelectSeq(ids, LAMBDA v : v # id)

\* One turn of the while loop of generate_roads; st holds connected,
\* unconnected and roads.
ConnectStep(map, cities, st) ==
    LET pair == best_pair(cities, st.connected, st.unconnected)
        from_city == CityById(cities, pair[1])
        to_city == CityById(cities, pair[2])
        road == [id |-> Len(st.roads) + 1,
                 waypoints |-> find_path(map, from_city.position, to_city.position),
                 road_type |-> determine_road_type(from_city.tier, to_city.tier),
                 connects |-> pair]
    IN  [connected |-> Append(st.connected, pair[2]),
         unconnected |-> RemoveId(st.unconnected, pair[2]),
         roads |-> Append(st.roads, road)]

RECURSIVE ConnectLoop(_, _, _)
\* while !unconnected.is_empty()
ConnectLoop(map, cities, st) ==
    IF st.unconnected = <<>> THEN st.roads
    ELSE ConnectLoop(map, cities, ConnectStep(map, cities, st))

generate_roads(map, cities) ==
    IF cities = <<>> THEN <<>>
    ELSE ConnectLoop(map, cities,
                     [connected |-> <<cities[1].id>>,
                      unconnected |-> [i \in 1..(Len(cities) - 1) |-> cities[i + 1].id],
                      roads |-> <<>>])

\* A route finder that knows a road by its direction of building only.
find_route_roads_forward(roads, from_id, to_id) ==
    LET direct == {i \in DOMAIN roads : roads[i].connects = <<from_id, to_id>>}
    IN  IF direct # {} THEN <<roads[Min(direct)].id>> ELSE <<>>

find_route_roads(roads, from_id, to_id) ==
    LET direct == {i \in DOMAIN roads :
                      roads[i].connects \in {<<from_id, to_id>>, <<to_id, from_id>>}}
    IN  IF direct # {} THEN <<roads[Min(direct)].id>> ELSE <<>>

RECURSIVE ExtendGoods(_, _)
ExtendGoods(goods, more) ==
    IF more = <<>> THEN goods
    ELSE ExtendGoods(IF InSeq(goods, Head(more)) THEN goods ELSE Append(goods, Head(more)),
                     Tail(more))

\* The goods of a route between two capitals.
RouteGoods(map, cities, cap_a_id, cap_b_id) ==
    LET biome_a == get_biome(map, CityById(cities, cap_a_id).position[1],
                             CityById(cities, cap_a_id).position[2])
        biome_b == get_biome(map, CityById(cities, cap_b_id).position[1],
                             CityById(cities, cap_b_id).position[2])
        first == IF biome_a # <<>> THEN TradeGood_from_biome(biome_a[1]) ELSE <<>>
    IN  IF biome_b # <<>> THEN ExtendGoods(first, TradeGood_from_biome(biome_b[1])) ELSE first

RECURSIVE RouteLoop(_, _, _, _, _, _, _)
\* The nested loops of generate_trade_routes over the faction pairs (i, j), i < j.
RouteLoop(roads, cities, factions, map, i, j, routes) ==
    IF i > Len(factions) THEN routes
    ELSE IF j > Len(factions)
         THEN RouteLoop(roads, cities, factions, map, i + 1, i + 2, routes)
    ELSE LET a == factions[i]
             b == factions[j]
             route_roads == find_route_roads(roads, a.capital_id[1], b.capital_id[1])
         IN  IF a.capital_id = <<>> \/ b.capital_id = <<>> \/ route_roads = <<>>
             THEN RouteLoop(roads, cities, factions, map, i, j + 1, routes)
             ELSE RouteLoop(roads, cities, factions, map, i, j + 1,
                    Append(routes,
                           [id |-> Len(routes) + 1,
                            road_ids |-> route_roads,
                            faction_ids |-> <<a.id, b.id>>,
                            settlement_ids |-> <<a.capital_id[1], b.capital_id[1]>>,
                            goods |-> RouteGoods(map, cities, a.capital_id[1],
                                                 b.capital_id[1]),
                            importance |-> 70]))

generate_trade_routes(roads, cities, factions, map) ==
    RouteLoop(roads, cities, factions, map, 1, 2, <<>>)

\* ---- territory map (territory.rs) and flood-fill (civilization.rs) ----

TerritoryMap_new(width, height) ==
    [width |-> width, height |-> height,
     ownership |-> [i \in 1..(width * height) |-> 0],
     influence |-> [i \in 1..(width * height) |-> 0]]

\* TerritoryMap::idx, as a position in the model's sequences.
idx(t, x, y) == y * t.width + x + 1

get_owner(t, x, y) ==
    IF x < t.width /\ y < t.height THEN t.ownership[idx(t, x, y)] ELSE 0

get_influence(t, x, y) ==
    IF x < t.width /\ y < t.height THEN t.influence[idx(t, x, y)] ELSE 0

Territory_set(t, x, y, faction_id, influence) ==
    IF x < t.width /\ y < t.height
    THEN [t EXCEPT !.ownership[idx(t, x, y)] = faction_id,
                   !.influence[idx(t, x, y)] = influence]
    ELSE t

is_claimed(t, x, y) == get_owner(t, x, y) # 0

\* TerritoryMap::neighbors: left, right, up, down, those that exist.
neighbors(t, x, y) ==
    (IF x > 0 THEN <<(<<x - 1, y>>)>> ELSE <<>>)
    \o (IF x + 1 < t.width THEN <<(<<x + 1, y>>)>> ELSE <<>>)
    \o (IF y > 0 THEN <<(<<x, y - 1>>)>> ELSE <<>>)
    \o (IF y + 1 < t.height THEN <<(<<x, y + 1>>)>> ELSE <<>>)

\* The initial influence of a member settlement, in units of 1/InfluenceScale.
SeedInfluence(faction, city) ==
    IF faction.capital_id = <<city.id>> THEN InfluenceScale
    ELSE CASE city.tier = "Capital" -> InfluenceScale
           [] city.tier = "Town" -> (InfluenceScale * 8) \div 10
           [] city.tier = "Village" -> (InfluenceScale * 5) \div 10

RECURSIVE SeedFaction(_, _, _, _)
SeedFaction(t, faction, cities, k) ==
    IF k > Len(faction.settlement_ids) THEN t
    ELSE LET city_id == faction.settlement_ids[k]
         IN  IF \E i \in DOMAIN cities : cities[i].id = city_id
             THEN LET city == CityById(cities, city_id)
                  IN  SeedFaction(
                        Territory_set(t, city.position[1], city.position[2], faction.id,
                                      SeedInfluence(faction, city)),
                        faction, cities, k + 1)
             ELSE SeedFaction(t, faction, cities, k + 1)

RECURSIVE SeedSettlements(_, _, _, _)
SeedSettlements(t, factions, cities, f) ==
    IF f > Len(factions) THEN t
    ELSE SeedSettlements(SeedFaction(t, factions[f], cities, 1), factions, cities, f + 1)

RECURSIVE StrongestNeighbor(_, _, _)
\* The loop over a cell's neighbours: the owner and influence of the first
\* claimed neighbour whose influence exceeds every earlier one's.
StrongestNeighbor(t, cells, best) ==
    IF cells = <<>> THEN best
    ELSE LET owner == get_owner(t, Head(cells)[1], Head(cells)[2])
             inf == get_influence(t, Head(cells)[1], Head(cells)[2])
         IN  StrongestNeighbor(t, Tail(cells),
                IF owner # 0 /\ inf > best.influence
                THEN [faction |-> owner, influence |-> inf] ELSE best)

\* The visit of a cell without the test that skips a claimed cell.
SweepCell_reclaiming(map, threshold, acc, i) ==
    LET t == acc.territory
        x == i % t.width
        y == i \div t.width
        biome == get_biome(map, x, y)
        decay == terrain_influence_decay(biome[1])
        best == StrongestNeighbor(t, neighbors(t, x, y), [faction |-> 0, influence |-> 0])
        new_influence == (best.influence * decay) \div 100
    IN  IF biome = <<>> \/ decay = 0 \/ ~(new_influence > threshold)
        THEN acc
        ELSE [territory |-> Territory_set(t, x, y, best.faction, new_influence),
              changed |-> TRUE]

\* The visit of a cell that claims it without raising the changed flag.
SweepCell_unflagged(map, threshold, acc, i) ==
    LET t == acc.territory
        x == i % t.width
        y == i \div t.width
        biome == get_biome(map, x, y)
        decay == terrain_influence_decay(biome[1])
        best == StrongestNeighbor(t, neighbors(t, x, y), [faction |-> 0, influence |-> 0])
        new_influence == (best.influence * decay) \div 100
    IN  IF is_claimed(t, x, y) \/ biome = <<>> \/ decay = 0 \/ ~(new_influence > threshold)
        THEN acc
        ELSE [territory |-> Territory_set(t, x, y, best.faction, new_influence),
              changed |-> acc.changed]

\* The flood-fill's visit of cell number i (row-major) during a pass; acc
\* holds the map as the pass has left it so far and the changed flag.
SweepCell(map, threshold, acc, i) ==
    LET t == acc.territory
        x == i % t.width
        y == i \div t.width
        biome == get_biome(map, x, y)
        decay == terrain_influence_decay(biome[1])
        best == StrongestNeighbor(t, neighbors(t, x, y), [faction |-> 0, influence |-> 0])
        new_influence == (best.influence * decay) \div 100
    IN  IF is_claimed(t, x, y) \/ biome = <<>> \/ decay = 0 \/ ~(new_influence > threshold)
        THEN acc
        ELSE [territory |-> Territory_set(t, x, y, best.faction, new_influence),
              changed |-> TRUE]

RECURSIVE SweepRange(_, _, _, _, _)
\* The visits of the cells lo .. hi - 1 of a pass, in order: the second half
\* of the range starts from the map the first half has left.
SweepRange(map, threshold, acc, lo, hi) ==
    IF hi <= lo THEN acc
    ELSE IF hi = lo + 1 THEN SweepCell(map, threshold, acc, lo)
    ELSE CHOOSE done \in {SweepRange(map, threshold, half, (lo + hi) \div 2, hi) :
                            half \in {SweepRange(map, threshold, acc, lo,
                                                 (lo + hi) \div 2)}} : TRUE

\* One pass of the flood-fill: every cell in row-major order, the map being
\* updated in place as the pass goes.
Sweep(map, threshold, t) ==
    SweepRange(map, threshold, [territory |-> t, changed |-> FALSE], 0, t.width * t.height)

RECURSIVE FloodFill(_, _, _, _, _)
\* while changed && iterations < MAX_ITERATIONS
FloodFill(map, threshold, t, changed, iterations) ==
    IF changed /\ iterations < MAX_ITERATIONS
    THEN LET pass == Sweep(map, threshold, t)
         IN  FloodFill(map, threshold, pass.territory, pass.changed, iterations + 1)
    ELSE t

generate_territories(map, cities, factions, threshold) ==
    FloodFill(map, threshold,
              SeedSettlements(TerritoryMap_new(map.width, map.height), factions, cities, 1),
              TRUE, 0)

\* ---- one generator working on one world definition ----

VARIABLES
    biome_map,     \* the BiomeMap handed to generate
    candidates,    \* what find_local_maxima reports on biome_map
    generator,     \* CivilizationGenerator: seed and config
    world_def,     \* WorldDefinition: cities, factions, roads, trade routes, territory
    pc,            \* the step of generate that comes next
    frame,         \* generate's locals: roads_built, trade_routes_created
    result,        \* the CivilizationResult of the latest call that returned
    runs,          \* generate calls started so far
    placement,     \* history: has_capital and each placed settlement's culture
    firstRun       \* history: the cities and territory the first call produced

civVars == <<biome_map, candidates, generator, world_def, pc, frame, result, runs,
             placement, firstRun>>

\* The flag settings of CivilizationConfig the model runs with; the first is
\* the default.
FlagSettings ==
    {[generate_roads |-> TRUE, generate_trade_routes |-> TRUE, generate_territories |-> TRUE],
     [generate_roads |-> FALSE, generate_trade_routes |-> TRUE, generate_territories |-> TRUE],
     [generate_roads |-> TRUE, generate_trade_routes |-> FALSE, generate_territories |-> TRUE],
     [generate_roads |-> TRUE, generate_trade_routes |-> TRUE, generate_territories |-> FALSE]}

Seeds == {42}

\* CivilizationConfig with territory_threshold at its default of 0.1.
Configs ==
    {[max_settlements |-> m, generate_roads |-> f.generate_roads,
      generate_trade_routes |-> f.generate_trade_routes,
      generate_territories |-> f.generate_territories,
      territory_threshold |-> InfluenceScale \div 10] :
        m \in {1, MaxSettlements}, f \in FlagSettings}

\* WorldDefinition::new
WorldDefinition_new ==
    [cities |-> <<>>, factions |-> <<>>, roads |-> <<>>, trade_routes |-> <<>>,
     territory_cache |-> <<>>]

NoFrame == [roads_built |-> 0, trade_routes_created |-> 0]

NoPlacement == [has_capital |-> {}, cultures |-> <<>>]

CivInit ==
    /\ \E pattern \in MapPatterns :
            /\ biome_map = MapOf(pattern)
            /\ candidates \in CandidateLists(MapOf(pattern))
    /\ generator \in [seed : Seeds, config : Configs]
    /\ world_def = WorldDefinition_new
    /\ pc = "Idle"
    /\ frame = NoFrame
    /\ result = <<>>
    /\ runs = 0
    /\ placement = NoPlacement
    /\ firstRun = <<>>

\* generate, steps 1 and 2: place the settlements.
PlaceSettlements ==
    /\ pc \in {"Idle", "Done"}
    /\ runs < MaxRuns
    /\ \E sorted \in sort_by(candidates) :
         LET placed == place_settlements(sorted, generator.config.max_settlements,
                                         generator.seed)
         IN  /\ world_def' = [world_def EXCEPT !.cities = placed.settlements]
             /\ placement' = [has_capital |-> placed.has_capital,
                              cultures |-> placed.placed_cultures]
    /\ pc' = "Factions"
    /\ runs' = runs + 1
    /\ frame' = NoFrame
    /\ UNCHANGED <<biome_map, candidates, generator, result, firstRun>>

\* generate, step 3
CreateFactions ==
    /\ pc = "Factions"
    /\ world_def' = [world_def EXCEPT !.factions = create_factions(world_def.cities)]
    /\ pc' = "Roads"
    /\ UNCHANGED <<biome_map, candidates, generator, frame, result, runs, placement,
                   firstRun>>

\* generate, step 4
GenerateRoads ==
    /\ pc = "Roads"
    /\ IF generator.config.generate_roads
       THEN LET roads == generate_roads(biome_map, world_def.cities)
            IN  /\ world_def' = [world_def EXCEPT !.roads = roads]
                /\ frame' = [frame EXCEPT !.roads_built = Len(roads)]
       ELSE /\ frame' = [frame EXCEPT !.roads_built = 0]
            /\ UNCHANGED world_def
    /\ pc' = "Trade"
    /\ UNCHANGED <<biome_map, candidates, generator, result, runs, placement, firstRun>>

\* generate, step 5
GenerateTradeRoutes ==
    /\ pc = "Trade"
    /\ IF generator.config.generate_trade_routes /\ world_def.roads # <<>>
       THEN LET routes == generate_trade_routes(world_def.roads, world_def.cities,
                                                world_def.factions, biome_map)
            IN  /\ world_def' = [world_def EXCEPT !.trade_routes = routes]
                /\ frame' = [frame EXCEPT !.trade_routes_created = Len(routes)]
       ELSE /\ frame' = [frame EXCEPT !.trade_routes_created = 0]
            /\ UNCHANGED world_def
    /\ pc' = "Territories"
    /\ UNCHANGED <<biome_map, candidates, generator, result, runs, placement, firstRun>>

\* generate, step 6 and the return
GenerateTerritories ==
    /\ pc = "Territories"
    /\ world_def' =
         IF generator.config.generate_territories
         THEN [world_def EXCEPT !.territory_cache =
                 <<generate_territories(biome_map, world_def.cities, world_def.factions,
                                        generator.config.territory_threshold)>>]
         ELSE world_def
    /\ result' = <<[settlements_placed |-> Len(world_def.cities),
                    factions_created |-> Len(world_def.factions),
                    roads_built |-> frame.roads_built,
                    trade_routes_created |-> frame.trade_routes_created]>>
    /\ firstRun' = IF firstRun = <<>>
                   THEN <<[cities |-> world_def'.cities,
                           territory_cache |-> world_def'.territory_cache]>>
                   ELSE firstRun
    /\ pc' = "Done"
    /\ UNCHANGED <<biome_map, candidates, generator, frame, runs, placement>>

(***************************************************************************)
(* TERRITORY FLOOD-FILL                                                    *)
(*                                                                         *)
(* generate_territories cell visit by cell visit, on a small grid of       *)
(* plains with at most one cell of sea or mountain, for two factions of    *)
(* one settlement each: the capital of the first, and a capital or a       *)
(* village of the second, on land cells.                                   *)
(***************************************************************************)

FloodWidth == 3

FloodHeight == 2

FloodCells == 0..(FloodWidth * FloodHeight - 1)

FloodMaps ==
    {[width |-> FloodWidth, height |-> FloodHeight,
      biome |-> [i \in 1..(FloodWidth * FloodHeight) |->
                    IF i = odd + 1 THEN kind ELSE "Plains"]] :
        odd \in FloodCells, kind \in {"Plains", "Sea", "Mountain"}}

\* Plains but for the sea cells left of and below the cell at the end of the
\* first row, which no influence can reach from the rest of the map.
IslandMap ==
    [width |-> FloodWidth, height |-> FloodHeight,
     biome |-> [i \in 1..(FloodWidth * FloodHeight) |->
                   IF i \in {FloodWidth - 1, 2 * FloodWidth} THEN "Sea" ELSE "Plains"]]

\* config.territory_threshold at its default of 0.1.
FloodThreshold == InfluenceScale \div 10

\* The thresholds a map is filled with: the default and one of a half,
\* which a village's influence never exceeds; on the island map the default
\* and one below zero, which every influence exceeds.
FloodThresholds(map) ==
    IF map = IslandMap THEN {FloodThreshold, -1}
    ELSE {FloodThreshold, InfluenceScale \div 2}

FloodCity(id, cell, tier) ==
    City_new(id, <<>>, <<cell % FloodWidth, cell \div FloodWidth>>, tier)

VARIABLES
    flood_map,     \* the biome map
    flood_cities,  \* the settlements
    flood_factions,\* the factions
    flood,         \* territory, changed, iterations, the cell to visit next, the phase,
                   \* the configured threshold
    settled        \* the territory as the previous pass left it

floodVars == <<flood_map, flood_cities, flood_factions, flood, settled>>

FloodInit ==
    /\ flood_map \in FloodMaps \cup {IslandMap}
    /\ \E a \in FloodCells, b \in FloodCells, tier \in {"Capital", "Village"} :
           /\ a # b
           /\ flood_map.biome[a + 1] \notin WaterBiomes
           /\ flood_map.biome[b + 1] \notin WaterBiomes
           /\ flood_cities = <<FloodCity(1, a, "Capital"), FloodCity(2, b, tier)>>
           /\ flood_factions =
                 <<set_capital(Faction_new(1, "TideWalker"), 1),
                   IF tier = "Capital"
                   THEN set_capital(Faction_new(2, "TwilightDweller"), 2)
                   ELSE add_settlement(Faction_new(2, "TwilightDweller"), 2)>>
    /\ \E threshold \in FloodThresholds(flood_map) :
           flood = [territory |-> TerritoryMap_new(FloodWidth, FloodHeight),
                    changed |-> FALSE, iterations |-> 0, next |-> 0, phase |-> "Seed",
                    threshold |-> threshold]
    /\ settled = TerritoryMap_new(FloodWidth, FloodHeight)

\* generate_territories up to the loop: the settlements are seeded.
SeedTerritory ==
    /\ flood.phase = "Seed"
    /\ flood' = [territory |-> SeedSettlements(flood.territory, flood_factions,
                                               flood_cities, 1),
                 changed |-> TRUE, iterations |-> 0,
                 next |-> FloodWidth * FloodHeight, phase |-> "Loop",
                 threshold |-> flood.threshold]
    /\ settled' = flood'.territory
    /\ UNCHANGED <<flood_map, flood_cities, flood_factions>>

\* while changed && iterations < MAX_ITERATIONS: a pass begins.
BeginPass ==
    /\ flood.phase = "Loop"
    /\ flood.next = FloodWidth * FloodHeight
    /\ flood.changed /\ flood.iterations < MAX_ITERATIONS
    /\ flood' = [flood EXCEPT !.changed = FALSE, !.iterations = @ + 1, !.next = 0]
    /\ settled' = flood.territory
    /\ UNCHANGED <<flood_map, flood_cities, flood_factions>>

\* The body of the loops over y and x for one cell.
VisitCell ==
    /\ flood.phase = "Loop"
    /\ flood.next < FloodWidth * FloodHeight
    /\ LET acc == SweepCell(flood_map, flood.threshold,
                            [territory |-> flood.territory, changed |-> flood.changed],
                            flood.next)
       IN  flood' = [flood EXCEPT !.territory = acc.territory, !.changed = acc.changed,
                                  !.next = @ + 1]
    /\ UNCHANGED <<flood_map, flood_cities, flood_factions, settled>>

\* The loop ends and the territory is returned.
ReturnTerritory ==
    /\ flood.phase = "Loop"
    /\ flood.next = FloodWidth * FloodHeight
    /\ ~(flood.changed /\ flood.iterations < MAX_ITERATIONS)
    /\ flood' = [flood EXCEPT !.phase = "Done"]
    /\ UNCHANGED <<flood_map, flood_cities, flood_factions, settled>>

(***************************************************************************)
(* ROAD NETWORK                                                            *)
(*                                                                         *)
(* generate_roads on any list of one to three settlements of any tiers,    *)
(* listed in any order, on the candidate sites of a one-row map.           *)
(***************************************************************************)

CityTiers == {"Capital", "Town", "Village"}

\* The lists of n settlements on distinct sites.
CityLists(n) ==
    {cities \in [1..n -> [x : SiteXs, tier : CityTiers]] :
        \A i, j \in 1..n : i # j => cities[i].x # cities[j].x}

VARIABLES
    road_map,      \* the biome map the roads cross
    road_cities,   \* the settlements to connect
    road_network   \* the roads built, once built

roadVars == <<road_map, road_cities, road_network>>

RoadsInit ==
    /\ \E pattern \in MapPatterns : road_map = MapOf(pattern)
    /\ \E n \in 1..MaxSettlements :
           \E cities \in CityLists(n) :
               road_cities = [i \in 1..n |->
                                  City_new(i, <<>>, <<cities[i].x, 0>>, cities[i].tier)]
    /\ road_network = <<>>

\* generate_roads
BuildRoads ==
    /\ road_network = <<>>
    /\ road_network' = <<generate_roads(road_map, road_cities)>>
    /\ UNCHANGED <<road_map, road_cities>>

(***************************************************************************)
(* FACTION CREATION                                                        *)
(*                                                                         *)
(* create_factions on any list of placed settlements, numbered from 1 in   *)
(* placement order as place_settlements numbers them, of any tiers.        *)
(***************************************************************************)

\* Most settlements handed to create_factions.
MaxCities == 7

VARIABLES
    member_cities,  \* the settlements, in placement order
    founded         \* the factions create_factions returned, once called

factionVars == <<member_cities, founded>>

FactionsInit ==
    /\ \E n \in 0..MaxCities :
          \E tiers \in [1..n -> CityTiers] :
              member_cities = [i \in 1..n |-> City_new(i, <<>>, <<i, 0>>, tiers[i])]
    /\ founded = <<>>

\* generate, step 3: create_factions(&world_def.cities, seed)
FoundAndAssign ==
    /\ founded = <<>>
    /\ founded' = <<create_factions(member_cities)>>
    /\ UNCHANGED member_cities

(***************************************************************************)
(* TRADE ROUTES                                                            *)
(*                                                                         *)
(* generate_trade_routes on factions of one settlement each, which is the  *)
(* faction's capital or not, with one more settlement that is no capital,  *)
(* and on any list of roads between the settlements, in either direction.  *)
(***************************************************************************)

\* Factions handed to generate_trade_routes.
TradeFactions == 3

\* Most roads handed to generate_trade_routes.
MaxRoads == 2

TradeCityIds == 1..(TradeFactions + 1)

\* The ends a road may have.
Connections == {c \in TradeCityIds \X TradeCityIds : c[1] # c[2]}

VARIABLES
    trade_world,    \* the map, settlements, factions and roads handed in
    trade_routes    \* the routes generate_trade_routes returned, once called

tradeVars == <<trade_world, trade_routes>>

TradeInit ==
    /\ \E n \in 0..MaxRoads :
          \E ends \in [1..n -> Connections], crowned \in SUBSET (1..TradeFactions) :
              trade_world =
                  [map |-> OneRowMap([i \in 1..MapWidth |-> "Plains"]),
                   cities |-> [i \in TradeCityIds |->
                                 City_new(i, <<>>, <<CandidateStep * i, 0>>,
                                          IF i \in crowned THEN "Capital" ELSE "Town")],
                   factions |-> [f \in 1..TradeFactions |->
                                   IF f \in crowned
                                   THEN set_capital(Faction_new(f, CultureType_all[f]), f)
                                   ELSE add_settlement(Faction_new(f, CultureType_all[f]),
                                                       f)],
                   roads |-> [k \in 1..n |->
                                [id |-> k, waypoints |-> <<>>, road_type |-> "Trail",
                                 connects |-> ends[k]]]]
    /\ trade_routes = <<>>

\* generate, step 5: generate_trade_routes
TradeRoutes ==
    /\ trade_routes = <<>>
    /\ trade_routes' = <<generate_trade_routes(trade_world.roads, trade_world.cities,
                                               trade_world.factions, trade_world.map)>>
    /\ UNCHANGED trade_world

(***************************************************************************)
(* ONE WORLD DESCRIPTION, GENERATED AND EDITED                             *)
(*                                                                         *)
(* The WorldDefinition resource through generate calls, each with a map    *)
(* and a configuration of its own, and through the map editor's city       *)
(* placements and deletions, which number cities from WorldIdGenerator.    *)
(***************************************************************************)

\* Most cities the editor places.
MaxPlaced == 2

\* The map cells the editor's clicks land on.
ClickXs == {0, CandidateStep}

\* CityPlacementState.tier
PlacedTiers == {"Town"}

\* The map the world is generated on.
WorldMap == MapOf("Desert")

\* The results of find_local_maxima the world is generated from: a candidate
\* of suitability 0.6 on every site, the first a TideWalker and the others
\* of either culture.
WorldCandidates ==
    {cands \in CandidateLists(WorldMap) :
        /\ Len(cands) = Cardinality(SiteXs)
        /\ cands[1].culture_type = "TideWalker"
        /\ \A i \in DOMAIN cands : cands[i].suitability = 60}

\* The configurations generate is called with: every flag set and the larger
\* cap, or any flag setting and a cap of one settlement.
WorldConfigs ==
    {cfg \in Configs :
        \/ cfg.max_settlements = 1
        \/ /\ cfg.generate_roads
           /\ cfg.generate_trade_routes
           /\ cfg.generate_territories}

\* CivilizationGenerator::generate as one step from the world description
\* held before to the one held after, with the result returned.
generate(map, cands, held, gen) ==
    LET placed == place_settlements(CHOOSE s \in sort_by(cands) : TRUE,
                                    gen.config.max_settlements, gen.seed)
        new_cities == placed.settlements
        new_factions == create_factions(new_cities)
        roads_now == IF gen.config.generate_roads THEN generate_roads(map, new_cities)
                     ELSE held.roads
        roads_built == IF gen.config.generate_roads THEN Len(roads_now) ELSE 0
        trading == gen.config.generate_trade_routes /\ roads_now # <<>>
        routes_now == IF trading
                      THEN generate_trade_routes(roads_now, new_cities, new_factions, map)
                      ELSE held.trade_routes
        territory_now == IF gen.config.generate_territories
                         THEN <<generate_territories(map, new_cities, new_factions,
                                                     gen.config.territory_threshold)>>
                         ELSE held.territory_cache
    IN  [world_def |-> [cities |-> new_cities, factions |-> new_factions,
                        roads |-> roads_now, trade_routes |-> routes_now,
                        territory_cache |-> territory_now],
         result |-> [settlements_placed |-> Len(new_cities),
                     factions_created |-> Len(new_factions),
                     roads_built |-> roads_built,
                     trade_routes_created |-> IF trading THEN Len(routes_now) ELSE 0]]

VARIABLES
    world,         \* the WorldDefinition resource
    id_gen,        \* the WorldIdGenerator resource
    civ_result,    \* what the last generate call returned, if one was made
    generate_calls,\* generate calls made so far
    last_op        \* history: the operation that produced the state

worldVars == <<world, id_gen, civ_result, generate_calls, last_op>>

\* init_resource: WorldDefinition and WorldIdGenerator at their defaults.
WorldInit ==
    /\ world = WorldDefinition_new
    /\ id_gen = [next_city_id |-> 0]
    /\ civ_result = <<>>
    /\ generate_calls = 0
    /\ last_op = "new"

\* A generate call returns.
RunGenerate ==
    /\ generate_calls < MaxRuns
    /\ \E cands \in WorldCandidates, gen \in [seed : Seeds, config : WorldConfigs] :
          LET after == generate(WorldMap, cands, world, gen)
          IN  /\ world' = after.world_def
              /\ civ_result' = <<after.result>>
    /\ generate_calls' = generate_calls + 1
    /\ last_op' = "generate"
    /\ UNCHANGED id_gen

\* map_editor_click_system with the PlaceCity tool, on a click inside the map.
PlaceCity ==
    /\ id_gen.next_city_id < MaxPlaced
    /\ \E x \in ClickXs, tier \in PlacedTiers :
          world' = [world EXCEPT !.cities =
                       Append(@, City_new(id_gen.next_city_id, <<>>, <<x, 0>>, tier))]
    /\ id_gen' = [id_gen EXCEPT !.next_city_id = @ + 1]
    /\ last_op' = "place"
    /\ UNCHANGED <<civ_result, generate_calls>>

\* The Delete button of the selected city.
DeleteCity ==
    /\ \E i \in DOMAIN world.cities :
          world' = [world EXCEPT !.cities =
                       SelectSeq(@, LAMBDA c : c.id # world.cities[i].id)]
    /\ last_op' = "delete"
    /\ UNCHANGED <<id_gen, civ_result, generate_calls>>

(***************************************************************************)
(* PER-CELL ACCESSORS                                                      *)
(*                                                                         *)
(* A biome map, a resource map and a territory map over the same small     *)
(* grid, written by the setters and read at coordinates that reach one     *)
(* cell past the grid in each direction. Coordinates are usize, so never   *)
(* negative. Abundances are in thousandths.                                *)
(***************************************************************************)

\* Extent of the grid.
GridWidth == 2
GridHeight == 2

\* ResourceMap::set ignores abundances below 0.01.
AbundanceFloor == 10

ResourceTypes == {"Iron", "Gold"}
Abundances == {5, 800}

\* The f64 layers of a BiomeMap that have a per-cell accessor.
ScalarLayers ==
    {"temperature", "continentalness", "tectonic", "erosion", "peaks_valleys",
     "humidity", "political", "trade_cost"}

Coords == (0..GridWidth) \X (0..GridHeight)

InBounds(x, y) == x < GridWidth /\ y < GridHeight

\* A generated biome map: every cell of every layer holds data.
GridMap ==
    [width |-> GridWidth, height |-> GridHeight,
     biome |-> [i \in 1..(GridWidth * GridHeight) |-> "Plains"],
     layers |-> [l \in ScalarLayers |-> [i \in 1..(GridWidth * GridHeight) |-> i]]]

\* BiomeMap::get_temperature .. get_trade_cost: the layer's value at an
\* in-bounds cell, nothing otherwise.
get_layer(map, layer, x, y) ==
    IF x < map.width /\ y < map.height
    THEN <<map.layers[layer][y * map.width + x + 1]>> ELSE <<>>

\* ResourceMap::new
ResourceMap_new(width, height) == [width |-> width, height |-> height, resources |-> <<>>]

\* The position of resource in a cell's entry, if it has one.
EntryIndex(entry, resource) == {i \in DOMAIN entry : entry[i][1] = resource}

\* ResourceMap::set without the floor: any abundance is stored.
ResourceMap_set_any(m, x, y, resource, abundance) ==
    LET cell == y * m.width + x
        entry == IF cell \in DOMAIN m.resources THEN m.resources[cell] ELSE <<>>
        at == EntryIndex(entry, resource)
        updated == IF at # {}
                   THEN [entry EXCEPT ![Min(at)] = <<resource, abundance>>]
                   ELSE Append(entry, <<resource, abundance>>)
    IN  [m EXCEPT !.resources = (cell :> updated) @@ m.resources]

\* ResourceMap::set without the search for an existing entry: always a push.
ResourceMap_set_push(m, x, y, resource, abundance) ==
    IF abundance < AbundanceFloor THEN m
    ELSE LET cell == y * m.width + x
             entry == IF cell \in DOMAIN m.resources THEN m.resources[cell] ELSE <<>>
         IN  [m EXCEPT !.resources =
                  (cell :> Append(entry, <<resource, abundance>>)) @@ m.resources]

\* ResourceMap::set
ResourceMap_set(m, x, y, resource, abundance) ==
    IF abundance < AbundanceFloor THEN m
    ELSE LET cell == y * m.width + x
             entry == IF cell \in DOMAIN m.resources THEN m.resources[cell] ELSE <<>>
             at == EntryIndex(entry, resource)
             updated == IF at # {}
                        THEN [entry EXCEPT ![Min(at)] = <<resource, abundance>>]
                        ELSE Append(entry, <<resource, abundance>>)
         IN  [m EXCEPT !.resources = (cell :> updated) @@ m.resources]

\* ResourceMap::get
ResourceMap_get(m, x, y, resource) ==
    LET cell == y * m.width + x
    IN  IF cell \in DOMAIN m.resources /\ EntryIndex(m.resources[cell], resource) # {}
        THEN m.resources[cell][Min(EntryIndex(m.resources[cell], resource))][2]
        ELSE 0

\* ResourceMap::get_all
ResourceMap_get_all(m, x, y) ==
    LET cell == y * m.width + x
    IN  IF cell \in DOMAIN m.resources THEN m.resources[cell] ELSE <<>>

\* ResourceMap::has_resources
has_resources(m, x, y) == (y * m.width + x) \in DOMAIN m.resources

VARIABLES
    grid,          \* a BiomeMap
    resource_map,  \* a ResourceMap
    territory,     \* a TerritoryMap
    probe          \* what the accessors returned at the coordinates last read

mapVars == <<grid, resource_map, territory, probe>>

MapsInit ==
    /\ grid = GridMap
    /\ resource_map = ResourceMap_new(GridWidth, GridHeight)
    /\ territory = TerritoryMap_new(GridWidth, GridHeight)
    /\ probe = <<>>

\* The resource pass of map generation stores a cell's abundance.
SetResource(x, y, resource, abundance) ==
    /\ InBounds(x, y)
    /\ resource_map' = ResourceMap_set(resource_map, x, y, resource, abundance)
    /\ UNCHANGED <<grid, territory, probe>>

\* TerritoryMap::set, at any coordinates.
SetTerritory(x, y, faction_id) ==
    /\ territory' = Territory_set(territory, x, y, faction_id, InfluenceScale)
    /\ UNCHANGED <<grid, resource_map, probe>>

\* Every per-cell accessor read at (x, y).
ReadCell(x, y) ==
    /\ probe' = <<[x |-> x, y |-> y,
                   biome |-> get_biome(grid, x, y),
                   layers |-> [l \in ScalarLayers |-> get_layer(grid, l, x, y)],
                   abundance |-> [r \in ResourceTypes |->
                                     ResourceMap_get(resource_map, x, y, r)],
                   all |-> ResourceMap_get_all(resource_map, x, y),
                   has_resources |-> has_resources(resource_map, x, y),
                   owner |-> get_owner(territory, x, y),
                   influence |-> get_influence(territory, x, y)]>>
    /\ UNCHANGED <<grid, resource_map, territory>>

(***************************************************************************)
(* RESOURCE WRITES                                                         *)
(*                                                                         *)
(* A bounded number of ResourceMap::set calls on in-bounds cells, with the *)
(* arguments of the last call and, for every cell and resource type, the   *)
(* abundance of the last call that gave one of at least the floor (none    *)
(* once a call gave less).                                                 *)
(***************************************************************************)

\* set calls per map.
MaxSets == 3

\* Below the floor, and two distinct values above it.
SetAbundances == {5, 500, 800}

Cells == {c \in Coords : InBounds(c[1], c[2])}

Keys == Cells \X ResourceTypes

VARIABLES
    sets,      \* set calls made
    last_set,  \* the arguments of the last set call
    expected   \* per key, the abundance last stored by a call, if known

resourceVars == <<sets, last_set, expected>>

ResourcesInit ==
    /\ MapsInit
    /\ sets = 0
    /\ last_set = <<>>
    /\ expected = [k \in Keys |-> <<>>]

\* ResourceMap::set on an in-bounds cell, recorded.
RecordedSet(x, y, resource, abundance) ==
    /\ sets < MaxSets
    /\ SetResource(x, y, resource, abundance)
    /\ sets' = sets + 1
    /\ last_set' = <<[x |-> x, y |-> y, resource |-> resource, abundance |-> abundance]>>
    /\ expected' = [expected EXCEPT ![<<<<x, y>>, resource>>] =
                        IF abundance >= AbundanceFloor THEN <<abundance>> ELSE <<>>]

(***************************************************************************)
(* LAYER PROGRESS                                                          *)
(*                                                                         *)
(* One LayerProgress per generation run, incremented by the pixel chunks   *)
(* of the tiles being generated in parallel and read by the loading        *)
(* screen. Increments are fetch_add and reads are load, both Relaxed: a    *)
(* counter is modelled by its modification order, and a load returns any   *)
(* value of that order not older than the one the reader saw last.         *)
(***************************************************************************)

\* Layers a tracker counts (the program has seven).
NumLayers == 2

\* Tiles generated in one run and the pixels of a tile.
NumTiles == 1
TilePixels == 3

\* Pixels per progress update (progress_chunk).
ProgressChunk == 2

\* Generation runs started.
MaxGenerations == 2

\* LayerId::index of the layers counted.
LayerIds == 0..(NumLayers - 1)

\* The chunks par_chunks cuts a tile's pixels into.
ChunksPerTile == (TilePixels + ProgressChunk - 1) \div ProgressChunk

Jobs == (1..NumTiles) \X (1..ChunksPerTile)

\* chunk.len()
ChunkLen(job) == Min({ProgressChunk, TilePixels - (job[2] - 1) * ProgressChunk})

Last(seq) == seq[Len(seq)]

\* LayerProgress::new
LayerProgress_new(total_pixels) ==
    [counters |-> [l \in LayerIds |-> <<0>>], total_pixels |-> total_pixels]

\* An increment that stores the amount instead of adding it.
increment_store(p, layer, amount) ==
    [p EXCEPT !.counters[layer] = Append(@, amount)]

\* An increment that adds to the value the counter had one modification
\* earlier.
increment_stale(p, layer, amount) ==
    [p EXCEPT !.counters[layer] =
        Append(@, @[Max({1, Len(@) - 1})] + amount)]

\* LayerProgress::increment
increment(p, layer, amount) ==
    [p EXCEPT !.counters[layer] = Append(@, Last(@) + amount)]

\* LayerProgress::get by a reader that has seen the counter up to position
\* from of its modification order: the positions the load may return.
get(p, layer, from) == from..Len(p.counters[layer])

\* LayerProgress::fraction, in percent, of a count.
fraction(p, count) == IF p.total_pixels = 0 THEN 0 ELSE (count * 100) \div p.total_pixels

VARIABLES
    layer_progress,  \* task_res.layer_progress: the tracker of the running task
    next_layer,      \* per chunk of a tile: the layer it increments next
    seen,            \* per layer: how far the loading screen has seen the counter
    observed,        \* per layer: the count and fraction the loading screen read last
    generation       \* runs started so far

progressVars == <<layer_progress, next_layer, seen, observed, generation>>

ProgressInit ==
    /\ layer_progress = <<>>
    /\ next_layer = [j \in Jobs |-> NumLayers]
    /\ seen = [l \in LayerIds |-> 1]
    /\ observed = [l \in LayerIds |-> <<>>]
    /\ generation = 0

\* start of a generation run: a new tracker, handed to the task and the screen.
StartGeneration ==
    /\ layer_progress = <<>>
    /\ generation < MaxGenerations
    /\ layer_progress' = <<LayerProgress_new(TilePixels * NumTiles)>>
    /\ next_layer' = [j \in Jobs |-> 0]
    /\ seen' = [l \in LayerIds |-> 1]
    /\ observed' = [l \in LayerIds |-> <<>>]
    /\ generation' = generation + 1

\* generate_meso_full: a chunk's next progress.increment.
Increment(job) ==
    /\ layer_progress # <<>>
    /\ next_layer[job] < NumLayers
    /\ layer_progress' = <<increment(layer_progress[1], next_layer[job], ChunkLen(job))>>
    /\ next_layer' = [next_layer EXCEPT ![job] = @ + 1]
    /\ UNCHANGED <<seen, observed, generation>>

\* The loading screen reads a layer's fraction.
ReadFraction(layer) ==
    /\ layer_progress # <<>>
    /\ \E at \in get(layer_progress[1], layer, seen[layer]) :
          LET count == layer_progress[1].counters[layer][at]
          IN  /\ seen' = [seen EXCEPT ![layer] = at]
              /\ observed' = [observed EXCEPT ![layer] =
                                <<[count |-> count,
                                   fraction |-> fraction(layer_progress[1], count)]>>]
    /\ UNCHANGED <<layer_progress, next_layer, generation>>

\* The task has finished: the tracker is dropped.
FinishGeneration ==
    /\ layer_progress # <<>>
    /\ \A j \in Jobs : next_layer[j] = NumLayers
    /\ layer_progress' = <<>>
    /\ observed' = [l \in LayerIds |-> <<>>]
    /\ UNCHANGED <<next_layer, seen, generation>>

(***************************************************************************)
(* PARALLEL MAP GENERATION                                                 *)
(*                                                                         *)
(* BiomeMap::generate and BiomeMap::generate_meso_full with their parallel *)
(* iterators: the items of a parallel pass are computed one at a time in   *)
(* any order, each result is kept with the position of its item, and the   *)
(* collect that ends the pass gives the results in the order of the items. *)
(* The sequential loop that unpacks the layers follows.                    *)
(***************************************************************************)

\* Extent of the generated maps (a tile of generate_meso_full is square, of
\* the width).
TileWidth == 2

TileHeight == 2

\* Pixels per parallel chunk of generate_meso_full (progress_chunk).
PixelChunk == 2

\* Seeds a map is generated with.
MapSeeds == {0, 4}

BaseLayers == <<"continentalness", "temperature", "tectonic", "peaks_valleys">>

DependentLayers == <<"erosion", "humidity">>

\* seed.wrapping_add(k): the seed of each layer's strategy.
LayerSeed(seed, layer) ==
    CASE layer = "continentalness" -> seed
      [] layer = "temperature" -> seed + 1
      [] layer = "tectonic" -> seed + 2
      [] layer = "erosion" -> seed + 3
      [] layer = "peaks_valleys" -> seed + 4
      [] layer = "humidity" -> seed + 5

\* NoiseStrategy::generate of a layer's strategy: a pure function, kept as a
\* fixed function whose value depends on every argument.
strategy_generate(layer, seed, x, y, detail) ==
    (LayerSeed(seed, layer) * 11 + x * 3 + y * 7 + detail * 29) % 101

\* generate_with_continentalness of the erosion and humidity strategies.
generate_with_continentalness(layer, seed, x, y, detail, cont) ==
    (strategy_generate(layer, seed, x, y, detail) + 2 * cont) % 101

\* The closure of the first parallel pass of generate, for item (x, y).
base_item(seed, x, y) ==
    [l \in {BaseLayers[k] : k \in DOMAIN BaseLayers} |-> strategy_generate(l, seed, x, y, 0)]

\* The closure of the second parallel pass of generate, for item pixel = (x, y):
\* the continentalness is read from the collected first pass.
dependent_item(seed, base_data, pixel, x, y) ==
    [l \in {DependentLayers[k] : k \in DOMAIN DependentLayers} |->
        generate_with_continentalness(l, seed, x, y, 0, base_data[pixel + 1].continentalness)]

\* The body of the per-pixel loop of generate_meso_full for pixel pixel.
meso_pixel(seed, output_size, detail, pixel) ==
    LET py == pixel \div output_size
        px == pixel % output_size
        cont == strategy_generate("continentalness", seed, px, py, detail)
    IN  [continentalness |-> cont,
         temperature |-> strategy_generate("temperature", seed, px, py, detail),
         tectonic |-> strategy_generate("tectonic", seed, px, py, detail),
         peaks_valleys |-> strategy_generate("peaks_valleys", seed, px, py, detail),
         erosion |-> generate_with_continentalness("erosion", seed, px, py, detail, cont),
         humidity |-> generate_with_continentalness("humidity", seed, px, py, detail, cont)]

\* The closure of the parallel pass of generate_meso_full for one chunk: the
\* results of its pixels, in order.
meso_chunk(seed, output_size, detail, chunk, total_pixels) ==
    LET first == chunk * PixelChunk
        len == Min({PixelChunk, total_pixels - first})
    IN  [k \in 1..len |-> meso_pixel(seed, output_size, detail, first + k - 1)]

RECURSIVE Flatten(_)
Flatten(seqs) == IF seqs = <<>> THEN <<>> ELSE Head(seqs) \o Flatten(Tail(seqs))

\* A collect that lists the results as the items finished.
collect_as_finished(slots, finished) ==
    [i \in 1..Len(finished) |-> slots[finished[i]][1]]

\* collect() of a parallel iterator into a Vec: the results in the order of
\* the items, whatever the order they were computed in.
collect(slots, finished) ==
    [i \in 1..Len(finished) |-> slots[i - 1][1]]

\* The loop that unpacks the collected tuples into one Vec per layer.
unpack(width, height, data) ==
    [width |-> width, height |-> height,
     continentalness |-> [i \in DOMAIN data |-> data[i].continentalness],
     temperature |-> [i \in DOMAIN data |-> data[i].temperature],
     tectonic |-> [i \in DOMAIN data |-> data[i].tectonic],
     peaks_valleys |-> [i \in DOMAIN data |-> data[i].peaks_valleys],
     erosion |-> [i \in DOMAIN data |-> data[i].erosion],
     humidity |-> [i \in DOMAIN data |-> data[i].humidity]]

\* base_data.iter().zip(dependent_data.iter())
zip(base_data, dependent_data) ==
    [i \in 1..Min({Len(base_data), Len(dependent_data)}) |->
        [continentalness |-> base_data[i].continentalness,
         temperature |-> base_data[i].temperature,
         tectonic |-> base_data[i].tectonic,
         peaks_valleys |-> base_data[i].peaks_valleys,
         erosion |-> dependent_data[i].erosion,
         humidity |-> dependent_data[i].humidity]]

VARIABLES
    par   \* the call (function, seed, width, height, detail level), the stage it
          \* is in, the result slots of the running parallel pass, the order its
          \* items finished in, the collected passes, and the map once built

parVars == <<par>>

NoSlots(n) == [i \in 0..(n - 1) |-> <<>>]

\* The items of the parallel pass of a call: pixels for generate, chunks of
\* pixels for generate_meso_full.
NumItems(call) ==
    IF call.function = "generate" THEN call.width * call.height
    ELSE (call.width * call.height + PixelChunk - 1) \div PixelChunk

ParInit ==
    \E function \in {"generate", "generate_meso_full"}, seed \in MapSeeds :
        LET call == [function |-> function, seed |-> seed, width |-> TileWidth,
                     height |-> IF function = "generate" THEN TileHeight ELSE TileWidth,
                     detail |-> IF function = "generate" THEN 0 ELSE 1]
        IN  par = [call |-> call, stage |-> "First", slots |-> NoSlots(NumItems(call)),
                   finished |-> <<>>, base_data |-> <<>>, dependent_data |-> <<>>,
                   built |-> <<>>]

\* A worker computes one item of the running parallel pass.
ComputeItem(i) ==
    /\ par.stage \in {"First", "Second"}
    /\ i \in DOMAIN par.slots
    /\ par.slots[i] = <<>>
    /\ LET c == par.call
           computed ==
               IF c.function = "generate_meso_full"
               THEN meso_chunk(c.seed, c.width, c.detail, i, c.width * c.height)
               ELSE IF par.stage = "First"
               THEN base_item(c.seed, i % c.width, i \div c.width)
               ELSE dependent_item(c.seed, par.base_data, i, i % c.width, i \div c.width)
       IN  par' = [par EXCEPT !.slots[i] = <<computed>>, !.finished = Append(@, i)]

\* Every item of the pass is done: collect gives the Vec of results.
Collect ==
    /\ par.stage \in {"First", "Second"}
    /\ \A i \in DOMAIN par.slots : par.slots[i] # <<>>
    /\ LET data == collect(par.slots, par.finished)
           c == par.call
       IN  par' =
             IF c.function = "generate_meso_full"
             THEN [par EXCEPT !.stage = "Unpack", !.base_data = Flatten(data),
                              !.slots = NoSlots(0), !.finished = <<>>]
             ELSE IF par.stage = "First"
             THEN [par EXCEPT !.stage = "Second", !.base_data = data,
                              !.slots = NoSlots(NumItems(c)), !.finished = <<>>]
             ELSE [par EXCEPT !.stage = "Unpack", !.dependent_data = data,
                              !.slots = NoSlots(0), !.finished = <<>>]

\* The sequential loop over the collected data, and the map returned.
Unpack ==
    /\ par.stage = "Unpack"
    /\ LET c == par.call
           data == IF c.function = "generate_meso_full" THEN par.base_data
                   ELSE zip(par.base_data, par.dependent_data)
       IN  par' = [par EXCEPT !.stage = "Done",
                              !.built = <<unpack(c.width, c.height, data)>>]

(***************************************************************************)
(* TILE RUN                                                                *)
(*                                                                         *)
(* The run start_generation spawns: every tile is generated by a call of   *)
(* generate_meso_full, the calls and the pixel chunks of each call run in  *)
(* parallel, and every chunk increments each layer of the one tracker by   *)
(* its length once its pixels are computed. A fetch_add reads and writes   *)
(* the counter in one step, so a counter is its modification order.        *)
(***************************************************************************)

\* Tiles of a run (TOTAL_CHUNKS).
RunTiles == 2

\* The output sizes a run is made with (MESO_MAP_SIZE).
OutputSizes == 1..TileWidth

\* The chunks par_chunks cuts the pixels of a tile into.
TileChunks(output_size) == (output_size * output_size + PixelChunk - 1) \div PixelChunk

\* chunk.len() of the chunk with the number c (from 0).
TileChunkLen(output_size, c) ==
    Min({PixelChunk, output_size * output_size - c * PixelChunk})

VARIABLES
    run   \* output_size, the tracker, per tile and chunk the layer the chunk
          \* increments next, and the tiles whose call has returned

runVars == <<run>>

RunJobs(output_size) == (1..RunTiles) \X (0..(TileChunks(output_size) - 1))

\* start_generation: the tracker counts the pixels of all tiles.
RunInit ==
    \E output_size \in OutputSizes :
        run = [output_size |-> output_size,
               layer_progress |-> LayerProgress_new(output_size * output_size * RunTiles),
               next_layer |-> [j \in RunJobs(output_size) |-> 0],
               returned |-> {}]

\* A chunk's next progress.increment(layer, chunk.len()).
ChunkIncrement(job) ==
    /\ job \in DOMAIN run.next_layer
    /\ run.next_layer[job] < NumLayers
    /\ run' = [run EXCEPT
                 !.layer_progress = increment(@, run.next_layer[job],
                               TileChunkLen(run.output_size, job[2])),
                 !.next_layer[job] = @ + 1]

\* Every chunk of the tile is done: its generate_meso_full returns.
TileReturn(tile) ==
    /\ tile \notin run.returned
    /\ \A job \in DOMAIN run.next_layer : job[1] = tile => run.next_layer[job] = NumLayers
    /\ run' = [run EXCEPT !.returned = @ \cup {tile}]

(***************************************************************************)
(* PATH SIMPLIFICATION                                                     *)
(*                                                                         *)
(* simplify_path on the paths astar can return on a map of several rows:   *)
(* cells without repetition, each an 8-neighbour of the one before.        *)
(***************************************************************************)

\* Longest path, in moves.
MaxMoves == 3

PathCells == (0..(2 * MaxMoves)) \X (0..(2 * MaxMoves))

\* The successors find_path generates: the 8 neighbours.
Adjacent(a, b) ==
    /\ a # b
    /\ a[1] - b[1] \in -1..1
    /\ a[2] - b[2] \in -1..1

RECURSIVE PathsOf(_)
\* The paths of k moves from the middle cell.
PathsOf(k) ==
    IF k = 0 THEN {<<(<<MaxMoves, MaxMoves>>)>>}
    ELSE {Append(ext[1], ext[2]) :
            ext \in {qc \in PathsOf(k - 1) \X PathCells :
                      /\ Adjacent(qc[1][Len(qc[1])], qc[2])
                      /\ \A i \in DOMAIN qc[1] : qc[1][i] # qc[2]}}

VARIABLES
    walked,     \* the path astar returned
    waypoints   \* what simplify_path made of it, once called

pathVars == <<walked, waypoints>>

PathInit ==
    /\ \E k \in 0..MaxMoves : walked \in PathsOf(k)
    /\ waypoints = <<>>

\* find_path, the Some arm: simplify_path(&path)
SimplifyPath ==
    /\ waypoints = <<>>
    /\ waypoints' = <<simplify_path(walked)>>
    /\ UNCHANGED walked

(***************************************************************************)
(* BIOME CLASSIFICATION                                                    *)
(*                                                                         *)
(* One cell of BiomeMap::generate: the six raw cell_layers, the biome the       *)
(* spline evaluator gives them and the trade cost derived from it.         *)
(* Continentalness is in thousandths, temperature in whole degrees,        *)
(* tectonic, erosion and peaks in tenths, humidity in hundredths.          *)
(* Elevations are held in ElevationUnit-ths of a thousandth, adjusted      *)
(* temperatures in Degree-ths of a degree and adjusted humidities in       *)
(* HumidityUnit-ths, so that every product of the evaluator is an integer; *)
(* trade costs are in units of 1/500.                                      *)
(***************************************************************************)

SEA_LEVEL == -25

LandRamp == 300

ElevationUnit == LandRamp

Degree == (ElevationUnit * 1000) \div 60

HumidityUnit == ElevationUnit * 2000

Elev(thousandths) == thousandths * ElevationUnit

Deg(degrees) == degrees * Degree

Hum(hundredths) == hundredths * (HumidityUnit \div 100)

WaterTiles == {"Sea", "White"}

\* Layer values the strategies can return: peaks in [-1, 1], the others
\* that are clamped in [0, 1].
Continentalnesses == {-500, -26, -25, -24, 0, 60, 130, 275}

Temperatures == {-30, -16, -15, -10, 25, 60, 75}

Tectonics == {0, 5, 10}

Erosions == {0, 5, 10}

PeaksValleys == {-10, 0, 10}

Humidities == {10, 28, 40, 70}

Clamp(v, lo, hi) == Max({lo, Min({hi, v})})

\* land_factor, times LandRamp.
land_factor(cont) == Clamp(cont - SEA_LEVEL, 0, LandRamp)

\* compute_elevation with the peaks and the erosion applied at full strength
\* everywhere, under water included.
compute_elevation_unscaled(cont, peaks, erosion) ==
    Elev(cont) + peaks * 12 * LandRamp - erosion * 4 * LandRamp

compute_elevation(cont, peaks, erosion) ==
    LET base == Elev(cont)
        peak_contribution == peaks * 12 * land_factor(cont)
        erosion_reduction == erosion * 4 * land_factor(cont)
    IN  base + peak_contribution - erosion_reduction

\* adjust_temperature without the volcanic heat.
adjust_temperature_lapse_only(temp, elevation, tectonic) ==
    LET elevation_above_sea == Max({elevation - Elev(SEA_LEVEL), 0})
        lapse_rate == elevation_above_sea
    IN  Deg(temp) - lapse_rate

adjust_temperature(temp, elevation, tectonic) ==
    LET elevation_above_sea == Max({elevation - Elev(SEA_LEVEL), 0})
        \* 60 degrees per unit of elevation is one Degree-th per elevation unit.
        lapse_rate == elevation_above_sea
        boundary_proximity == 10 - tectonic
        volcanic_heat == (boundary_proximity * boundary_proximity * 8 * Degree) \div 100
    IN  Deg(temp) - lapse_rate + volcanic_heat

adjust_humidity(humidity, elevation, cont) ==
    LET elevation_above_sea == Max({elevation - Elev(SEA_LEVEL), 0})
        rain_shadow ==
            IF elevation_above_sea > Elev(150)
            \* 2.5 per unit of elevation is five HumidityUnit-ths per elevation unit.
            THEN Min({(elevation_above_sea - Elev(150)) * 5, Hum(40)})
            ELSE 0
    IN  Clamp(Hum(humidity) - rain_shadow, 0, Hum(100))

biome_from_climate(elevation, temp, humidity) ==
    LET above_sea == elevation - Elev(SEA_LEVEL)
    IN  IF elevation < Elev(SEA_LEVEL)
        THEN IF temp < Deg(-15) THEN "White" ELSE "Sea"
        ELSE IF above_sea < Elev(20)
        THEN IF temp > Deg(3) THEN "Beach" ELSE "Snow"
        ELSE IF temp < Deg(3)
        THEN "Snow"
        ELSE IF above_sea > Elev(220)
        THEN IF temp > Deg(65) THEN "Plateau" ELSE "Mountain"
        ELSE IF temp > Deg(55) /\ humidity < Hum(30)
        THEN IF temp > Deg(70) /\ humidity < Hum(15) THEN "Sahara" ELSE "Desert"
        ELSE IF above_sea > Elev(120)
        THEN IF humidity > Hum(55) THEN "Forest"
             ELSE IF humidity < Hum(25) /\ temp > Deg(40) THEN "Desert"
             ELSE "Mountain"
        ELSE IF above_sea > Elev(40)
        THEN IF humidity > Hum(60) THEN "Forest"
             ELSE IF humidity > Hum(35) THEN "Plains"
             ELSE IF temp > Deg(45) THEN "Desert"
             ELSE "Plains"
        ELSE IF humidity > Hum(50) THEN "Forest" ELSE "Plains"

evaluate(continentalness, temperature, tectonic, erosion, peaks_valleys, humidity) ==
    LET elevation == compute_elevation(continentalness, peaks_valleys, erosion)
        adjusted_temp == adjust_temperature(temperature, elevation, tectonic)
        adjusted_humidity == adjust_humidity(humidity, elevation, continentalness)
    IN  biome_from_climate(elevation, adjusted_temp, adjusted_humidity)

\* An infinite cost is <<>>, a finite one <<cost>>.
INFINITY == <<>>

\* Tenths.
base_cost(biome) ==
    CASE biome \in WaterTiles -> INFINITY
      [] biome = "Mountain" -> <<100>>
      [] biome = "Plateau" -> <<60>>
      [] biome = "Snow" -> <<80>>
      [] biome = "Desert" -> <<50>>
      [] biome = "Sahara" -> <<60>>
      [] biome = "Forest" -> <<30>>
      [] biome = "Beach" -> <<15>>
      [] biome = "Plains" -> <<10>>

\* calculate_trade_cost with an erosion modifier of 1 - erosion * 0.5.
calculate_trade_cost_steep(biome, erosion) ==
    IF base_cost(biome) = INFINITY
    THEN INFINITY
    ELSE <<(base_cost(biome)[1] * (100 - 5 * erosion)) \div 2>>

calculate_trade_cost(biome, erosion) ==
    IF base_cost(biome) = INFINITY
    THEN INFINITY
    ELSE LET erosion_modifier == 50 - erosion
         IN  <<base_cost(biome)[1] * erosion_modifier>>

\* A cost given in tenths, in the units of calculate_trade_cost.
Cost(tenths) == tenths * 50

VARIABLES cell_layers, generated

biomeVars == <<cell_layers, generated>>

Layers ==
    [continentalness : Continentalnesses, temperature : Temperatures,
     tectonic : Tectonics, erosion : Erosions, peaks_valleys : PeaksValleys,
     humidity : Humidities]

BiomeInit ==
    /\ cell_layers \in Layers
    /\ generated = <<>>

\* The body of the per-cell loop of BiomeMap::generate.
GenerateCell ==
    /\ generated = <<>>
    /\ LET biome == evaluate(cell_layers.continentalness, cell_layers.temperature, cell_layers.tectonic,
                             cell_layers.erosion, cell_layers.peaks_valleys, cell_layers.humidity)
           trade == calculate_trade_cost(biome, cell_layers.erosion)
       IN  generated' = <<[biome |-> biome, trade_cost |-> trade]>>
    /\ UNCHANGED cell_layers

(***************************************************************************)
(* TERRAIN BIAS                                                            *)
(*                                                                         *)
(* TerrainBias::calculate in two terrain contexts that differ in their     *)
(* continentalness only. Continentalness is in hundredths, weights, the    *)
(* tectonic boundary distance and the water distance in tenths, and a      *)
(* multiplier in units of 1/400.                                           *)
(***************************************************************************)

BiasedResources ==
    {"Iron", "Copper", "Coal", "Stone", "Gold", "Salt", "Timber", "WildGame"}

\* ResourceType::terrain_bias
terrain_bias(resource) ==
    CASE resource = "Iron" -> [kind |-> "Mountain", weight |-> 7]
      [] resource = "Copper" -> [kind |-> "Mountain", weight |-> 5]
      [] resource = "Coal" -> [kind |-> "Mountain", weight |-> 6]
      [] resource = "Stone" -> [kind |-> "Mountain", weight |-> 3]
      [] resource = "Gold" -> [kind |-> "TectonicBoundary", weight |-> 8]
      [] resource = "Salt" -> [kind |-> "Coastal", weight |-> 7]
      [] resource = "Timber" -> [kind |-> "Biome", biome |-> "Forest", weight |-> 9]
      [] resource = "WildGame" ->
            [kind |-> "MultipleBiomes", biomes |-> {"Forest", "Plains"}, weight |-> 7]

\* TerrainBias::calculate with a mountain factor that is not clamped.
calculate_unclamped(bias, continentalness, tectonic_boundary_distance, water_distance, biome) ==
    400 - 40 * bias.weight + bias.weight * (continentalness - 10)

\* TerrainBias::calculate
calculate(bias, continentalness, tectonic_boundary_distance, water_distance, biome) ==
    CASE bias.kind = "Mountain" ->
            \* mountain_factor, times 40
            LET mountain_factor == Clamp(continentalness - 10, 0, 40)
            IN  400 - 40 * bias.weight + bias.weight * mountain_factor
      [] bias.kind = "TectonicBoundary" ->
            LET boundary_factor == 10 - tectonic_boundary_distance
            IN  400 - 40 * bias.weight + 4 * bias.weight * boundary_factor
      [] bias.kind = "Coastal" ->
            LET coastal_factor == 10 - Min({water_distance, 10})
            IN  400 - 40 * bias.weight + 4 * bias.weight * coastal_factor
      [] bias.kind = "Biome" ->
            IF biome = bias.biome THEN 400 ELSE 400 - 40 * bias.weight
      [] bias.kind = "MultipleBiomes" ->
            IF biome \in bias.biomes THEN 400 ELSE 400 - 40 * bias.weight

\* Continentalness from -0.5 to 0.5.
BiasContinentalnesses == {-50, -20, 10, 11, 30, 50}

VARIABLES
    context,     \* a resource, two continentalness values and the other inputs
    multipliers  \* the multiplier at each of the two values, once calculated

biasVars == <<context, multipliers>>

BiasInit ==
    /\ context \in [resource : BiasedResources,
                     c1 : BiasContinentalnesses, c2 : BiasContinentalnesses,
                     tectonic_boundary_distance : {0, 5},
                     water_distance : {1, 12},
                     biome : {"Forest", "Mountain"}]
    /\ context.c1 < context.c2
    /\ multipliers = <<>>

\* The bias multiplier of ResourceNoiseStrategy, at both continentalness values.
CalculateBias ==
    /\ multipliers = <<>>
    /\ multipliers' =
          <<calculate(terrain_bias(context.resource), context.c1,
                      context.tectonic_boundary_distance, context.water_distance,
                      context.biome),
            calculate(terrain_bias(context.resource), context.c2,
                      context.tectonic_boundary_distance, context.water_distance,
                      context.biome)>>
    /\ UNCHANGED context

(***************************************************************************)
(* SPECIFICATIONS                                                          *)
(***************************************************************************)

vars ==
    <<cacheVars, civVars, mapVars, progressVars, biomeVars, resourceVars,
      roadVars, coordVars, biasVars, floodVars, parVars, runVars,
      pathVars, factionVars, tradeVars, worldVars>>

\* What the actions of one subsystem leave alone.
exceptCache ==
    <<civVars, mapVars, progressVars, biomeVars, resourceVars, roadVars,
      coordVars, biasVars, floodVars, parVars, runVars, pathVars,
      factionVars, tradeVars, worldVars>>

exceptCiv ==
    <<cacheVars, mapVars, progressVars, biomeVars, resourceVars,
      roadVars, coordVars, biasVars, floodVars, parVars, runVars,
      pathVars, factionVars, tradeVars, worldVars>>

exceptMaps ==
    <<cacheVars, civVars, progressVars, biomeVars, resourceVars,
      roadVars, coordVars, biasVars, floodVars, parVars, runVars,
      pathVars, factionVars, tradeVars, worldVars>>

exceptProgress ==
    <<cacheVars, civVars, mapVars, biomeVars, resourceVars, roadVars,
      coordVars, biasVars, floodVars, parVars, runVars, pathVars,
      factionVars, tradeVars, worldVars>>

exceptBiome ==
    <<cacheVars, civVars, mapVars, progressVars, resourceVars, roadVars,
      coordVars, biasVars, floodVars, parVars, runVars, pathVars,
      factionVars, tradeVars, worldVars>>

exceptPar ==
    <<cacheVars, civVars, mapVars, progressVars, biomeVars, resourceVars,
      roadVars, coordVars, biasVars, floodVars, runVars, pathVars,
      factionVars, tradeVars, worldVars>>

exceptRun ==
    <<cacheVars, civVars, mapVars, progressVars, biomeVars, resourceVars,
      roadVars, coordVars, biasVars, floodVars, parVars, pathVars,
      factionVars, tradeVars, worldVars>>

exceptPath ==
    <<cacheVars, civVars, mapVars, progressVars, biomeVars, resourceVars,
      roadVars, coordVars, biasVars, floodVars, parVars, runVars,
      factionVars, tradeVars, worldVars>>

exceptFactions ==
    <<cacheVars, civVars, mapVars, progressVars, biomeVars, resourceVars,
      roadVars, coordVars, biasVars, floodVars, parVars, runVars,
      pathVars, tradeVars, worldVars>>

exceptTrade ==
    <<cacheVars, civVars, mapVars, progressVars, biomeVars, resourceVars,
      roadVars, coordVars, biasVars, floodVars, parVars, runVars,
      pathVars, factionVars, worldVars>>

exceptWorld ==
    <<cacheVars, civVars, mapVars, progressVars, biomeVars, resourceVars,
      roadVars, coordVars, biasVars, floodVars, parVars, runVars,
      pathVars, factionVars, tradeVars>>

exceptResources ==
    <<cacheVars, civVars, progressVars, biomeVars, roadVars, coordVars,
      biasVars, floodVars, parVars, runVars, pathVars, factionVars,
      tradeVars, worldVars>>

exceptRoads ==
    <<cacheVars, civVars, mapVars, progressVars, biomeVars, resourceVars,
      coordVars, biasVars, floodVars, parVars, runVars, pathVars,
      factionVars, tradeVars, worldVars>>

exceptCoords ==
    <<cacheVars, civVars, mapVars, progressVars, biomeVars, resourceVars,
      roadVars, biasVars, floodVars, parVars, runVars, pathVars,
      factionVars, tradeVars, worldVars>>

exceptBias ==
    <<cacheVars, civVars, mapVars, progressVars, biomeVars, resourceVars,
      roadVars, coordVars, floodVars, parVars, runVars, pathVars,
      factionVars, tradeVars, worldVars>>

exceptFlood ==
    <<cacheVars, civVars, mapVars, progressVars, biomeVars, resourceVars,
      roadVars, coordVars, biasVars, parVars, runVars, pathVars,
      factionVars, tradeVars, worldVars>>

\* The subsystems a specification does not exercise stay as constructed.
CacheIdle == HierarchyNew(CacheConfig(0, 0, 0)) /\ limit = 0

CivIdle ==
    /\ biome_map = OneRowMap(<<>>)
    /\ candidates = <<>>
    /\ generator = [seed |-> 0, config |-> CHOOSE c \in Configs : TRUE]
    /\ world_def = WorldDefinition_new
    /\ pc = "Idle"
    /\ frame = NoFrame
    /\ result = <<>>
    /\ runs = MaxRuns
    /\ placement = NoPlacement
    /\ firstRun = <<>>

MapsIdle == MapsInit

ProgressIdle ==
    /\ layer_progress = <<>>
    /\ next_layer = [j \in Jobs |-> NumLayers]
    /\ seen = [l \in LayerIds |-> 1]
    /\ observed = [l \in LayerIds |-> <<>>]
    /\ generation = MaxGenerations

FloodIdle ==
    /\ flood_map = CHOOSE map \in FloodMaps : TRUE
    /\ flood_cities = <<>>
    /\ flood_factions = <<>>
    /\ flood = [territory |-> TerritoryMap_new(FloodWidth, FloodHeight),
                changed |-> FALSE, iterations |-> 0, next |-> 0, phase |-> "Done",
                threshold |-> FloodThreshold]
    /\ settled = TerritoryMap_new(FloodWidth, FloodHeight)

BiasIdle ==
    /\ context = [resource |-> "Iron", c1 |-> 0, c2 |-> 0, tectonic_boundary_distance |-> 0,
                  water_distance |-> 0, biome |-> "Forest"]
    /\ multipliers = <<0, 0>>

CoordsIdle ==
    /\ world_pos = [x |-> 0, y |-> 0, chunk_size |-> MacroChunk_SIZE]
    /\ converted = <<world_to_chunk(0, 0, MacroChunk_SIZE)>>

RoadsIdle ==
    /\ road_map = OneRowMap(<<>>)
    /\ road_cities = <<>>
    /\ road_network = <<<<>>>>

ResourcesIdle ==
    /\ sets = MaxSets
    /\ last_set = <<>>
    /\ expected = [k \in Keys |-> <<>>]

BiomeIdle ==
    /\ cell_layers = CHOOSE l \in Layers : TRUE
    /\ generated = <<[biome |-> "Sea", trade_cost |-> INFINITY]>>

\* Any use of a hierarchy with the strategy it was made for.
CacheNext ==
    \/ (\E coord \in ChunkCoords, strategy \in OwnStrategies : GetMacro(coord, strategy))
            /\ UNCHANGED exceptCache
    \/ (\E coord \in ChunkCoords, strategy \in OwnStrategies : GetMeso(coord, strategy))
            /\ UNCHANGED exceptCache
    \/ (\E coord \in ChunkCoords, strategy \in OwnStrategies : GetMicro(coord, strategy))
            /\ UNCHANGED exceptCache
    \/ (\E x \in SampleXs, y \in SampleYs, level \in DetailLevels,
           strategy \in OwnStrategies : Sample(x, y, level, strategy))
            /\ UNCHANGED exceptCache
    \/ Clear /\ UNCHANGED exceptCache

\* Sample calls only, with either strategy, each one recorded.
SampleNext ==
    (\E x \in SampleXs, y \in SampleYs, level \in DetailLevels, strategy \in Strategies :
        ObservedSample(x, y, level, strategy))
    /\ UNCHANGED exceptCache

CivNext ==
    \/ PlaceSettlements /\ UNCHANGED exceptCiv
    \/ CreateFactions /\ UNCHANGED exceptCiv
    \/ GenerateRoads /\ UNCHANGED exceptCiv
    \/ GenerateTradeRoutes /\ UNCHANGED exceptCiv
    \/ GenerateTerritories /\ UNCHANGED exceptCiv

MapsNext ==
    \/ (\E c \in Coords, resource \in ResourceTypes, abundance \in Abundances :
            SetResource(c[1], c[2], resource, abundance))
            /\ UNCHANGED exceptMaps
    \/ (\E c \in Coords : SetTerritory(c[1], c[2], 1))
            /\ UNCHANGED exceptMaps
    \/ (\E c \in Coords : ReadCell(c[1], c[2]))
            /\ UNCHANGED exceptMaps

ProgressNext ==
    \/ StartGeneration /\ UNCHANGED exceptProgress
    \/ (\E job \in Jobs : Increment(job)) /\ UNCHANGED exceptProgress
    \/ (\E layer \in LayerIds : ReadFraction(layer))
            /\ UNCHANGED exceptProgress
    \/ FinishGeneration /\ UNCHANGED exceptProgress

BiomeNext == GenerateCell /\ UNCHANGED exceptBiome

ParIdle ==
    par = [call |-> [function |-> "generate", seed |-> 0, width |-> 0, height |-> 0,
                     detail |-> 0],
           stage |-> "Done", slots |-> NoSlots(0), finished |-> <<>>,
           base_data |-> <<>>, dependent_data |-> <<>>, built |-> <<>>]

RunIdle ==
    run = [output_size |-> 0, layer_progress |-> LayerProgress_new(0),
           next_layer |-> [j \in {} |-> 0], returned |-> 1..RunTiles]

RunNext ==
    \/ \E job \in (1..RunTiles) \X (0..(TileChunks(TileWidth) - 1)) :
           ChunkIncrement(job) /\ UNCHANGED exceptRun
    \/ \E tile \in 1..RunTiles : TileReturn(tile) /\ UNCHANGED exceptRun

PathIdle ==
    /\ walked = <<>>
    /\ waypoints = <<(<<>>)>>

PathNext == SimplifyPath /\ UNCHANGED exceptPath

FactionsIdle ==
    /\ member_cities = <<>>
    /\ founded = <<(<<>>)>>

FactionsNext == FoundAndAssign /\ UNCHANGED exceptFactions

WorldIdle ==
    /\ world = WorldDefinition_new
    /\ id_gen = [next_city_id |-> MaxPlaced]
    /\ civ_result = <<>>
    /\ generate_calls = MaxRuns
    /\ last_op = "new"

WorldNext ==
    \/ RunGenerate /\ UNCHANGED exceptWorld
    \/ PlaceCity /\ UNCHANGED exceptWorld
    \/ DeleteCity /\ UNCHANGED exceptWorld

TradeIdle ==
    /\ trade_world = [map |-> OneRowMap(<<>>), cities |-> <<>>, factions |-> <<>>,
                      roads |-> <<>>]
    /\ trade_routes = <<(<<>>)>>

TradeNext == TradeRoutes /\ UNCHANGED exceptTrade

ParNext ==
    \/ \E i \in 0..(TileWidth * TileHeight - 1) : ComputeItem(i) /\ UNCHANGED exceptPar
    \/ Collect /\ UNCHANGED exceptPar
    \/ Unpack /\ UNCHANGED exceptPar

FloodNext ==
    \/ SeedTerritory /\ UNCHANGED exceptFlood
    \/ BeginPass /\ UNCHANGED exceptFlood
    \/ VisitCell /\ UNCHANGED exceptFlood
    \/ ReturnTerritory /\ UNCHANGED exceptFlood

BiasNext == CalculateBias /\ UNCHANGED exceptBias

CoordsNext == WorldToChunk /\ UNCHANGED exceptCoords

RoadsNext == BuildRoads /\ UNCHANGED exceptRoads

ResourcesNext ==
    (\E c \in Cells, resource \in ResourceTypes, abundance \in SetAbundances :
        RecordedSet(c[1], c[2], resource, abundance))
    /\ UNCHANGED exceptResources

\* Each specification starts one subsystem and leaves the others idle.
InitCache ==
    /\ CacheInit /\ CivIdle /\ MapsIdle /\ ProgressIdle /\ BiomeIdle
    /\ ResourcesIdle /\ RoadsIdle /\ CoordsIdle /\ BiasIdle /\ FloodIdle
    /\ ParIdle /\ RunIdle /\ PathIdle /\ FactionsIdle /\ TradeIdle
    /\ WorldIdle

InitSample ==
    /\ SampleInit /\ CivIdle /\ MapsIdle /\ ProgressIdle /\ BiomeIdle
    /\ ResourcesIdle /\ RoadsIdle /\ CoordsIdle /\ BiasIdle /\ FloodIdle
    /\ ParIdle /\ RunIdle /\ PathIdle /\ FactionsIdle /\ TradeIdle
    /\ WorldIdle

InitCiv ==
    /\ CivInit /\ CacheIdle /\ MapsIdle /\ ProgressIdle /\ BiomeIdle
    /\ ResourcesIdle /\ RoadsIdle /\ CoordsIdle /\ BiasIdle /\ FloodIdle
    /\ ParIdle /\ RunIdle /\ PathIdle /\ FactionsIdle /\ TradeIdle
    /\ WorldIdle

InitMaps ==
    /\ MapsInit /\ CacheIdle /\ CivIdle /\ ProgressIdle /\ BiomeIdle
    /\ ResourcesIdle /\ RoadsIdle /\ CoordsIdle /\ BiasIdle /\ FloodIdle
    /\ ParIdle /\ RunIdle /\ PathIdle /\ FactionsIdle /\ TradeIdle
    /\ WorldIdle

InitProgress ==
    /\ ProgressInit /\ CacheIdle /\ CivIdle /\ MapsIdle /\ BiomeIdle
    /\ ResourcesIdle /\ RoadsIdle /\ CoordsIdle /\ BiasIdle /\ FloodIdle
    /\ ParIdle /\ RunIdle /\ PathIdle /\ FactionsIdle /\ TradeIdle
    /\ WorldIdle

InitResources ==
    /\ ResourcesInit /\ CacheIdle /\ CivIdle /\ ProgressIdle /\ BiomeIdle
    /\ RoadsIdle /\ CoordsIdle /\ BiasIdle /\ FloodIdle /\ ParIdle
    /\ RunIdle /\ PathIdle /\ FactionsIdle /\ TradeIdle /\ WorldIdle

InitRoads ==
    /\ RoadsInit /\ CacheIdle /\ CivIdle /\ MapsIdle /\ ProgressIdle
    /\ BiomeIdle /\ ResourcesIdle /\ CoordsIdle /\ BiasIdle /\ FloodIdle
    /\ ParIdle /\ RunIdle /\ PathIdle /\ FactionsIdle /\ TradeIdle
    /\ WorldIdle

InitCoords ==
    /\ CoordsInit /\ CacheIdle /\ CivIdle /\ MapsIdle /\ ProgressIdle
    /\ BiomeIdle /\ ResourcesIdle /\ RoadsIdle /\ BiasIdle /\ FloodIdle
    /\ ParIdle /\ RunIdle /\ PathIdle /\ FactionsIdle /\ TradeIdle
    /\ WorldIdle

InitBias ==
    /\ BiasInit /\ CacheIdle /\ CivIdle /\ MapsIdle /\ ProgressIdle
    /\ BiomeIdle /\ ResourcesIdle /\ RoadsIdle /\ CoordsIdle /\ FloodIdle
    /\ ParIdle /\ RunIdle /\ PathIdle /\ FactionsIdle /\ TradeIdle
    /\ WorldIdle

InitFlood ==
    /\ FloodInit /\ CacheIdle /\ CivIdle /\ MapsIdle /\ ProgressIdle
    /\ BiomeIdle /\ ResourcesIdle /\ RoadsIdle /\ CoordsIdle /\ BiasIdle
    /\ ParIdle /\ RunIdle /\ PathIdle /\ FactionsIdle /\ TradeIdle
    /\ WorldIdle

InitBiome ==
    /\ BiomeInit /\ CacheIdle /\ CivIdle /\ MapsIdle /\ ProgressIdle
    /\ ResourcesIdle /\ RoadsIdle /\ CoordsIdle /\ BiasIdle /\ FloodIdle
    /\ ParIdle /\ RunIdle /\ PathIdle /\ FactionsIdle /\ TradeIdle
    /\ WorldIdle

InitPar ==
    /\ ParInit /\ CacheIdle /\ CivIdle /\ MapsIdle /\ ProgressIdle
    /\ BiomeIdle /\ ResourcesIdle /\ RoadsIdle /\ CoordsIdle /\ BiasIdle
    /\ FloodIdle /\ RunIdle /\ PathIdle /\ FactionsIdle /\ TradeIdle
    /\ WorldIdle

InitRun ==
    /\ RunInit /\ CacheIdle /\ CivIdle /\ MapsIdle /\ ProgressIdle
    /\ BiomeIdle /\ ResourcesIdle /\ RoadsIdle /\ CoordsIdle /\ BiasIdle
    /\ FloodIdle /\ ParIdle /\ PathIdle /\ FactionsIdle /\ TradeIdle
    /\ WorldIdle

InitPath ==
    /\ PathInit /\ CacheIdle /\ CivIdle /\ MapsIdle /\ ProgressIdle
    /\ BiomeIdle /\ ResourcesIdle /\ RoadsIdle /\ CoordsIdle /\ BiasIdle
    /\ FloodIdle /\ ParIdle /\ RunIdle /\ FactionsIdle /\ TradeIdle
    /\ WorldIdle

InitFactions ==
    /\ FactionsInit /\ CacheIdle /\ CivIdle /\ MapsIdle /\ ProgressIdle
    /\ BiomeIdle /\ ResourcesIdle /\ RoadsIdle /\ CoordsIdle /\ BiasIdle
    /\ FloodIdle /\ ParIdle /\ RunIdle /\ PathIdle /\ TradeIdle
    /\ WorldIdle

InitTrade ==
    /\ TradeInit /\ CacheIdle /\ CivIdle /\ MapsIdle /\ ProgressIdle
    /\ BiomeIdle /\ ResourcesIdle /\ RoadsIdle /\ CoordsIdle /\ BiasIdle
    /\ FloodIdle /\ ParIdle /\ RunIdle /\ PathIdle /\ FactionsIdle
    /\ WorldIdle

InitWorld ==
    /\ WorldInit /\ CacheIdle /\ CivIdle /\ MapsIdle /\ ProgressIdle
    /\ BiomeIdle /\ ResourcesIdle /\ RoadsIdle /\ CoordsIdle /\ BiasIdle
    /\ FloodIdle /\ ParIdle /\ RunIdle /\ PathIdle /\ FactionsIdle
    /\ TradeIdle

SpecCache == InitCache /\ [][CacheNext]_vars

SpecSample == InitSample /\ [][SampleNext]_vars

SpecCiv == InitCiv /\ [][CivNext]_vars

SpecMaps == InitMaps /\ [][MapsNext]_vars

SpecProgress == InitProgress /\ [][ProgressNext]_vars

SpecBiome == InitBiome /\ [][BiomeNext]_vars

SpecResources == InitResources /\ [][ResourcesNext]_vars

SpecRoads == InitRoads /\ [][RoadsNext]_vars

SpecCoords == InitCoords /\ [][CoordsNext]_vars

SpecBias == InitBias /\ [][BiasNext]_vars

SpecFlood == InitFlood /\ [][FloodNext]_vars

SpecPar == InitPar /\ [][ParNext]_vars

SpecTrade == InitTrade /\ [][TradeNext]_vars

SpecWorld == InitWorld /\ [][WorldNext]_vars

SpecFactions == InitFactions /\ [][FactionsNext]_vars

SpecPath == InitPath /\ [][PathNext]_vars

SpecRun == InitRun /\ [][RunNext]_vars

\* The flood-fill run to its end: the generator is never left mid-loop.
SpecFloodRun == InitFlood /\ [][FloodNext]_vars /\ WF_vars(FloodNext)

(***************************************************************************)
(* Properties of the chunk hierarchy                                       *)
(***************************************************************************)

\* C1: when a miss evicts a chunk, the evicted chunk's most recent touch
\* (creation or hit) is not later than the most recent touch of any chunk the
\* tier keeps: a more recently touched chunk is never evicted while a less
\* recently touched one remains.
C1_EvictsLeastRecentlyTouched ==
    lastEvict # <<>> =>
        \A s \in lastEvict[1].survivorTouches : lastEvict[1].victimTouch <= s

\* A full tier of two chunks evicts the one touched strictly earlier.
C1_Witness ==
    /\ lastEvict # <<>>
    /\ TierCapacity(lastEvict[1].tier) = 2
    /\ \E s \in lastEvict[1].survivorTouches : lastEvict[1].victimTouch < s

\* C2 (as amended): the number of chunks stats reports for a tier never exceeds
\* that tier's configured capacity, or one chunk when the capacity is 0.
C2_OccupancyWithinCapacityOrOne ==
    /\ stats.macro_chunks <= Max({config.macro_cache_size, 1})
    /\ stats.meso_chunks <= Max({config.meso_cache_size, 1})
    /\ stats.micro_chunks <= Max({config.micro_cache_size, 1})

\* C2 (as stated): the number of chunks held in each tier never exceeds that
\* tier's configured capacity.
C2_OccupancyWithinCapacity ==
    /\ stats.macro_chunks <= config.macro_cache_size
    /\ stats.meso_chunks <= config.meso_cache_size
    /\ stats.micro_chunks <= config.micro_cache_size

\* A miss on a full tier of capacity two evicted a chunk and the tier is full again.
C2_Witness ==
    /\ lastEvict # <<>>
    /\ TierCapacity(lastEvict[1].tier) = 2
    /\ Cardinality(DOMAIN TierChunks(lastEvict[1].tier)) = 2

\* C3: a sample call with the arguments (x, y, detail level, strategy) of an
\* earlier sample call on the same hierarchy returns the value that call returned.
C3_SampleRepeatable ==
    (firstSample # <<>> /\ lastSample # <<>>) => lastSample[1] = firstSample[1].value

(***************************************************************************)
(* Properties of the civilization generator                                *)
(***************************************************************************)

\* The tier of the city with the given id in the world definition.
TierOf(id) == CityById(world_def.cities, id).tier

\* The position of the city with the given id in the world definition.
PositionOf(id) == CityById(world_def.cities, id).position

C5_OneCapitalPerFaction ==
    pc = "Done" =>
        \A k \in DOMAIN world_def.factions :
            LET faction == world_def.factions[k]
            IN  /\ faction.capital_id # <<>>
                /\ InSeq(faction.settlement_ids, faction.capital_id[1])
                /\ TierOf(faction.capital_id[1]) = "Capital"
                /\ \A m \in DOMAIN faction.settlement_ids :
                        TierOf(faction.settlement_ids[m]) = "Capital" =>
                            faction.settlement_ids[m] = faction.capital_id[1]

\* A culture has a capital candidate among the placed settlements when one of
\* its settlements is of tier Capital or Town.
HasCapitalCandidate(culture) ==
    \E i \in DOMAIN world_def.cities :
        /\ placement.cultures[i] = culture
        /\ world_def.cities[i].tier \in {"Capital", "Town"}

\* C6: after generate there is exactly one faction for each culture that has
\* a capital candidate among the placed settlements and none for a culture
\* that has no candidate.
C6_FactionPerCultureWithCandidate ==
    pc = "Done" =>
        \A c \in DOMAIN CultureType_all :
            Cardinality({k \in DOMAIN world_def.factions :
                            world_def.factions[k].culture = CultureType_all[c]})
              = IF HasCapitalCandidate(CultureType_all[c]) THEN 1 ELSE 0

\* The roads in the world definition are those of the current run.
RoadsBuilt == pc \in {"Trade", "Territories", "Done"} /\ generator.config.generate_roads

\* C7: road generation gives every settlement after the first one road, and
\* a road between two settlements without a route has exactly the two
\* settlements' positions as waypoints.
C7_UnreachableFallsBackToLine ==
    RoadsBuilt =>
        /\ Len(world_def.roads) = Max({Len(world_def.cities) - 1, 0})
        /\ \A k \in DOMAIN world_def.roads :
              LET road == world_def.roads[k]
                  from == PositionOf(road.connects[1])
                  to == PositionOf(road.connects[2])
              IN  astar(biome_map, from, to) = <<>> => road.waypoints = <<from, to>>

\* A road without a route was built and another road after it.
C7_Witness ==
    /\ RoadsBuilt
    /\ \E k \in DOMAIN world_def.roads :
          /\ k < Len(world_def.roads)
          /\ astar(biome_map, PositionOf(world_def.roads[k].connects[1]),
                   PositionOf(world_def.roads[k].connects[2])) = <<>>

\* generate has returned from a run in which placement had no candidate.
NothingPlaced == pc = "Done" /\ candidates = <<>>

\* The result and the world definition hold no settlement, faction, road or
\* trade route.
EmptyOutcome ==
    /\ result = <<[settlements_placed |-> 0, factions_created |-> 0,
                   roads_built |-> 0, trade_routes_created |-> 0]>>
    /\ world_def.cities = <<>>
    /\ world_def.factions = <<>>
    /\ world_def.roads = <<>>
    /\ world_def.trade_routes = <<>>

\* The world definition holds a territory map and none of its cells is claimed.
AllUnclaimed ==
    /\ world_def.territory_cache # <<>>
    /\ \A i \in DOMAIN world_def.territory_cache[1].ownership :
          world_def.territory_cache[1].ownership[i] = 0

C9_OutOfBoundsIsAbsent ==
    (probe # <<>> /\ ~InBounds(probe[1].x, probe[1].y)) =>
        /\ probe[1].biome = <<>>
        /\ \A l \in ScalarLayers : probe[1].layers[l] = <<>>
        /\ \A r \in ResourceTypes : probe[1].abundance[r] = 0
        /\ probe[1].all = <<>>
        /\ ~probe[1].has_resources
        /\ probe[1].owner = 0
        /\ probe[1].influence = 0

\* C10: while a generation run lasts, the count and the fraction the loading
\* screen reads for a layer are never below those it read before, and the
\* counter itself never goes down.
C10_CountersNeverDecrease ==
    [][(generation' = generation /\ layer_progress # <<>> /\ layer_progress' # <<>>) =>
          \A l \in LayerIds :
              /\ Last(layer_progress'[1].counters[l]) >= Last(layer_progress[1].counters[l])
              /\ (observed[l] # <<>> /\ observed'[l] # <<>>) =>
                    /\ observed'[l][1].count >= observed[l][1].count
                    /\ observed'[l][1].fraction >= observed[l][1].fraction]_vars

\* Two chunks are between their increments, and the loading screen has read
\* a count above 0 that later increments have already passed.
C10_Witness ==
    /\ layer_progress # <<>>
    /\ Cardinality({j \in Jobs : next_layer[j] \in 1..(NumLayers - 1)}) >= 2
    /\ \E l \in LayerIds :
          /\ observed[l] # <<>>
          /\ observed[l][1].count > 0
          /\ seen[l] < Len(layer_progress[1].counters[l])

(***************************************************************************)
(* Properties of the biome classification                                  *)
(***************************************************************************)

\* C11: a generated cell has a water biome (Sea or White) exactly when its
\* continentalness is below the sea level, whatever the other layers are.
C11_WaterExactlyBelowSeaLevel ==
    generated # <<>> =>
        (generated[1].biome \in WaterTiles <=> cell_layers.continentalness < SEA_LEVEL)

\* A cell just above the sea level with the deepest valley and the strongest
\* erosion has been generated as land.
C11_Witness ==
    /\ generated # <<>>
    /\ cell_layers.continentalness = SEA_LEVEL + 1
    /\ cell_layers.peaks_valleys = -10
    /\ cell_layers.erosion = 10
    /\ generated[1].biome \notin WaterTiles

\* C12 (as amended): the trade cost of a generated cell is infinite if its
\* biome is water and otherwise finite and at least 0.8, for every erosion
\* in [0, 1].
C12_TradeCostInfiniteOrAtLeastFourFifths ==
    generated # <<>> =>
        IF generated[1].biome \in WaterTiles
        THEN generated[1].trade_cost = INFINITY
        ELSE /\ generated[1].trade_cost # INFINITY
             /\ generated[1].trade_cost[1] >= Cost(8)

\* C12 (as stated): the trade cost of a generated cell is infinite if its
\* biome is water and otherwise finite and at least 1.
C12_TradeCostInfiniteOrAtLeastOne ==
    generated # <<>> =>
        IF generated[1].biome \in WaterTiles
        THEN generated[1].trade_cost = INFINITY
        ELSE /\ generated[1].trade_cost # INFINITY
             /\ generated[1].trade_cost[1] >= Cost(10)

\* A fully eroded plains cell has been generated; its cost is 0.8.
C12_Witness ==
    /\ generated # <<>>
    /\ generated[1].biome = "Plains"
    /\ cell_layers.erosion = 10
    /\ generated[1].trade_cost = <<Cost(8)>>

\* C16 (as amended): a generated cell whose continentalness is below the sea
\* level is White when its temperature plus the volcanic heat
\* 8 * (1 - tectonic)^2 is below -15 and Sea otherwise, whatever erosion,
\* peaks/valleys and humidity are. Both sides are in hundredths of a degree.
C16_FrozenByHeatedTemperature ==
    generated # <<>> /\ cell_layers.continentalness < SEA_LEVEL =>
        generated[1].biome =
            IF cell_layers.temperature * 100
                   + (10 - cell_layers.tectonic) * (10 - cell_layers.tectonic) * 8
               < -15 * 100
            THEN "White" ELSE "Sea"

\* C16 (as stated): a generated cell whose continentalness is below the sea
\* level is White when its temperature is below -15 and Sea otherwise,
\* whatever the other layers are.
C16_FrozenByTemperature ==
    generated # <<>> /\ cell_layers.continentalness < SEA_LEVEL =>
        generated[1].biome = IF cell_layers.temperature < -15 THEN "White" ELSE "Sea"

\* A cell under water at -16 degrees on a plate boundary has been generated
\* as open water.
C16_Witness ==
    /\ generated # <<>>
    /\ cell_layers.continentalness < SEA_LEVEL
    /\ cell_layers.temperature = -16
    /\ cell_layers.tectonic = 0
    /\ generated[1].biome = "Sea"

(***************************************************************************)
(* Properties of the resource writes                                       *)
(***************************************************************************)

\* C13 (as amended): a set call with an abundance below 0.01 is ignored; it
\* leaves the map as it was, so an empty cell stays empty and a cell that
\* held resources keeps them.
C13_SmallAbundanceIsIgnored ==
    [][sets' = sets + 1 /\ last_set'[1].abundance < AbundanceFloor
           => resource_map' = resource_map]_vars

\* C13 (as stated): after a set call with an abundance below 0.01 the cell
\* is empty: has_resources is false and get returns 0.
C13_SmallAbundanceLeavesCellEmpty ==
    last_set # <<>> /\ last_set[1].abundance < AbundanceFloor =>
        /\ ~has_resources(resource_map, last_set[1].x, last_set[1].y)
        /\ ResourceMap_get(resource_map, last_set[1].x, last_set[1].y,
                           last_set[1].resource) = 0

\* The last call gave less than the floor for a resource the cell holds.
C13_Witness ==
    /\ last_set # <<>>
    /\ last_set[1].abundance < AbundanceFloor
    /\ ResourceMap_get(resource_map, last_set[1].x, last_set[1].y,
                       last_set[1].resource) >= AbundanceFloor

\* C14: get returns the abundance of the last set call for the same cell and
\* resource type as long as that call gave at least 0.01, whatever was set
\* since for other cells or other types, and a cell never holds two entries
\* of one resource type.
C14_GetReturnsLastSet ==
    /\ \A k \in Keys :
           expected[k] # <<>> =>
               ResourceMap_get(resource_map, k[1][1], k[1][2], k[2]) = expected[k][1]
    /\ \A c \in Cells, r \in ResourceTypes :
           Cardinality(EntryIndex(ResourceMap_get_all(resource_map, c[1], c[2]), r)) <= 1

\* An abundance has been replaced by another one, and a different resource
\* type was then set in the same cell.
C14_Witness ==
    \E c \in Cells :
        /\ sets = 3
        /\ expected[<<c, "Gold">>] = <<500>>
        /\ last_set[1] = [x |-> c[1], y |-> c[2], resource |-> "Iron", abundance |-> 800]
        /\ ResourceMap_get_all(resource_map, c[1], c[2]) = <<<<"Gold", 500>>, <<"Iron", 800>>>>

(***************************************************************************)
(* Properties of the road network                                          *)
(***************************************************************************)

\* The tiers of the two settlements a built road connects.
EndTiers(road) ==
    {CityById(road_cities, road.connects[1]).tier,
     CityById(road_cities, road.connects[2]).tier}

\* C15 (as amended): the type of a road is fixed by the unordered pair of its
\* end tiers: Imperial between two capitals, Provincial between a capital
\* and a town and between two towns, Trail whenever a village is an end.
C15_RoadTypeByTierPair ==
    road_network # <<>> /\ road_cities # <<>> =>
        \A k \in DOMAIN road_network[1] :
            road_network[1][k].road_type =
                IF EndTiers(road_network[1][k]) = {"Capital"} THEN "Imperial"
                ELSE IF "Village" \in EndTiers(road_network[1][k]) THEN "Trail"
                ELSE "Provincial"

\* C15 (as stated): Imperial between two capitals, Provincial between a
\* capital and a town, Trail for every other pair of end tiers.
C15_RoadTypeTrailOtherwise ==
    road_network # <<>> /\ road_cities # <<>> =>
        \A k \in DOMAIN road_network[1] :
            road_network[1][k].road_type =
                IF EndTiers(road_network[1][k]) = {"Capital"} THEN "Imperial"
                ELSE IF EndTiers(road_network[1][k]) = {"Capital", "Town"} THEN "Provincial"
                ELSE "Trail"

\* A road between two towns was built after a road from a town to a capital.
C15_Witness ==
    /\ road_network # <<>>
    /\ Len(road_network[1]) = 2
    /\ CityById(road_cities, road_network[1][1].connects[1]).tier = "Town"
    /\ CityById(road_cities, road_network[1][1].connects[2]).tier = "Capital"
    /\ EndTiers(road_network[1][2]) = {"Town"}
    /\ road_network[1][2].road_type = "Provincial"

(***************************************************************************)
(* Properties of the world-to-chunk conversion                             *)
(***************************************************************************)

\* On one axis: the chunk coordinate is floor(world / chunk_size), the local
\* offset lies in 0 .. chunk_size - 1 and chunk * chunk_size + local is the
\* integer cell holding the world coordinate.
AxisConverted(w, chunk_size, chunk, local) ==
    /\ chunk = w \div (chunk_size * Unit)
    /\ local \in 0..(chunk_size - 1)
    /\ chunk * chunk_size + local = w \div Unit

\* C17: for every world position, negative and non-integer ones included, and
\* every chunk size, world_to_chunk returns on both axes the chunk
\* floor(world / chunk_size) and the local offset that, added to the chunk's
\* origin, gives the integer cell holding the world coordinate.
C17_ChunkAndLocalLocateTheCell ==
    converted # <<>> =>
        /\ AxisConverted(world_pos.x, world_pos.chunk_size,
                         converted[1].coord[1], converted[1].local_x)
        /\ AxisConverted(world_pos.y, world_pos.chunk_size,
                         converted[1].coord[2], converted[1].local_y)

(***************************************************************************)
(* Properties of the terrain bias                                          *)
(***************************************************************************)

\* Both multipliers of a mountain-biased resource have been calculated.
MountainCalculated ==
    multipliers # <<>> /\ terrain_bias(context.resource).kind = "Mountain"

\* C18 (as amended): with the other inputs fixed, the Mountain multiplier
\* never decreases as continentalness increases from -0.5 to 0.5; of two
\* values c1 < c2 the multiplier at c2 is greater exactly when c2 exceeds
\* 0.1, and the two are equal up to 0.1.
C18_MountainBiasIncreasesAboveTenth ==
    MountainCalculated /\ context.c1 < context.c2 =>
        IF context.c2 > 10
        THEN multipliers[1] < multipliers[2]
        ELSE multipliers[1] = multipliers[2]

\* C18 (as stated): of two values c1 < c2 from -0.5 to 0.5 the Mountain
\* multiplier at c2 is greater than the one at c1.
C18_MountainBiasStrictlyIncreases ==
    MountainCalculated /\ context.c1 < context.c2 => multipliers[1] < multipliers[2]

\* The multipliers at -0.5 and at -0.2 have been calculated and are equal.
C18_Witness ==
    /\ MountainCalculated
    /\ context.c1 = -50
    /\ context.c2 = -20
    /\ multipliers[1] = multipliers[2]

(***************************************************************************)
(* Properties of the territory flood-fill                                  *)
(***************************************************************************)

\* The cell with the row-major number i.
CellX(i) == i % FloodWidth

CellY(i) == i \div FloodWidth

OwnerAt(t, i) == get_owner(t, CellX(i), CellY(i))

InfluenceAt(t, i) == get_influence(t, CellX(i), CellY(i))

\* What a visit of cell i decides when it reads the map t.
DecidedFrom(t, i) ==
    LET after == SweepCell(flood_map, flood.threshold,
                           [territory |-> t, changed |-> FALSE], i).territory
    IN  <<OwnerAt(after, i), InfluenceAt(after, i)>>

\* C19: the visit of a cell during a pass leaves the cell as a visit reading
\* the map of the end of the previous pass would: nothing claimed earlier in
\* the same pass bears on it.
C19_PassReadsSettledState ==
    [][flood.phase = "Loop" /\ flood'.next = flood.next + 1
           => <<OwnerAt(flood'.territory, flood.next),
                InfluenceAt(flood'.territory, flood.next)>>
              = DecidedFrom(settled, flood.next)]_vars

\* The cells the settlements stand on.
SeedCells ==
    {i \in FloodCells :
        \E k \in DOMAIN flood_cities : flood_cities[k].position = <<CellX(i), CellY(i)>>}

\* The cell is not a barrier and a 4-neighbour of the same owner has the
\* influence that, times the cell's decay, is the cell's and exceeds the
\* threshold.
ClaimedFromNeighbour(t, i) ==
    LET decay == terrain_influence_decay(get_biome(flood_map, CellX(i), CellY(i))[1])
        around == neighbors(t, CellX(i), CellY(i))
    IN  /\ decay > 0
        /\ InfluenceAt(t, i) > flood.threshold
        /\ \E k \in DOMAIN around :
              /\ get_owner(t, around[k][1], around[k][2]) = OwnerAt(t, i)
              /\ (get_influence(t, around[k][1], around[k][2]) * decay) \div 100
                     = InfluenceAt(t, i)

\* C20: at every point of the flood-fill a claimed cell is a seed cell or
\* was claimed from a 4-neighbour of the same owner, no water cell is
\* claimed, and a claimed cell keeps its owner and its influence.
C20_ClaimedCellsAreSupportedAndKept ==
    /\ [](\A i \in FloodCells :
             OwnerAt(flood.territory, i) # 0 =>
                 /\ i \in SeedCells \/ ClaimedFromNeighbour(flood.territory, i)
                 /\ flood_map.biome[i + 1] \notin WaterBiomes)
    /\ [][\A i \in FloodCells :
             OwnerAt(flood.territory, i) # 0 =>
                 /\ OwnerAt(flood'.territory, i) = OwnerAt(flood.territory, i)
                 /\ InfluenceAt(flood'.territory, i) = InfluenceAt(flood.territory, i)]_vars

\* The flood-fill has returned a map on which both factions hold cells
\* beyond their seeds and a sea cell lies unclaimed next to a claimed cell.
C20_Witness ==
    /\ flood.phase = "Done"
    /\ flood.iterations > 1
    /\ \A f \in {1, 2} :
          \E i \in FloodCells \ SeedCells : OwnerAt(flood.territory, i) = f
    /\ \E i \in FloodCells :
          /\ flood_map.biome[i + 1] = "Sea"
          /\ OwnerAt(flood.territory, i) = 0
          /\ \E k \in DOMAIN neighbors(flood.territory, CellX(i), CellY(i)) :
                LET n == neighbors(flood.territory, CellX(i), CellY(i))[k]
                IN  get_owner(flood.territory, n[1], n[2]) # 0

\* An unclaimed cell that is no barrier and has a claimed 4-neighbour whose
\* influence, times the cell's decay, exceeds the threshold.
Claimable(t, i) ==
    LET decay == terrain_influence_decay(get_biome(flood_map, CellX(i), CellY(i))[1])
        around == neighbors(t, CellX(i), CellY(i))
    IN  /\ OwnerAt(t, i) = 0
        /\ decay > 0
        /\ \E k \in DOMAIN around :
              /\ get_owner(t, around[k][1], around[k][2]) # 0
              /\ (get_influence(t, around[k][1], around[k][2]) * decay) \div 100
                     > flood.threshold

\* C21: the flood-fill returns, it never makes more than MAX_ITERATIONS
\* passes, and when it returns after fewer it leaves no unclaimed cell that
\* a claimed 4-neighbour's influence, decayed, could still claim.
C21_ReturnsWithinCapWithNothingClaimable ==
    /\ [](flood.iterations <= MAX_ITERATIONS)
    /\ [](flood.phase = "Done" /\ flood.iterations < MAX_ITERATIONS
             => \A i \in FloodCells : ~Claimable(flood.territory, i))
    /\ <>(flood.phase = "Done")

\* The flood-fill has returned before the cap, after a pass that claimed
\* cells, leaving a mountain cell unclaimed beside a claimed cell whose
\* influence is too weak for it.
C21_Witness ==
    /\ flood.phase = "Done"
    /\ 2 < flood.iterations /\ flood.iterations < MAX_ITERATIONS
    /\ \E i \in FloodCells \ SeedCells : OwnerAt(flood.territory, i) # 0
    /\ \E i \in FloodCells :
          /\ flood_map.biome[i + 1] = "Mountain"
          /\ OwnerAt(flood.territory, i) = 0
          /\ \E k \in DOMAIN neighbors(flood.territory, CellX(i), CellY(i)) :
                LET n == neighbors(flood.territory, CellX(i), CellY(i))[k]
                IN  get_owner(flood.territory, n[1], n[2]) # 0

\* The flood-fill has returned at the cap, a pass having changed something
\* to the last.
C21_CapReached ==
    flood.phase = "Done" /\ flood.iterations = MAX_ITERATIONS /\ flood.changed

(***************************************************************************)
(* Properties of the spanning tree of roads                                *)
(***************************************************************************)

\* The settlements connected before the k-th road is built.
ConnectedBefore(roads, k) ==
    {road_cities[1].id} \cup {roads[j].connects[2] : j \in 1..(k - 1)}

CityIds == {road_cities[i].id : i \in DOMAIN road_cities}

\* C22: n settlements get n - 1 roads with distinct ids; each road leaves a
\* settlement connected before it and reaches one that was not, and no
\* connected and unconnected settlement lie closer to each other than its
\* two ends, so the roads are a spanning tree over the settlements.
C22_RoadsAreGreedySpanningTree ==
    road_network # <<>> =>
        LET roads == road_network[1]
        IN  /\ Len(roads) = Len(road_cities) - 1
            /\ \A j, k \in DOMAIN roads : j # k => roads[j].id # roads[k].id
            /\ \A k \in DOMAIN roads :
                  /\ roads[k].connects[1] \in ConnectedBefore(roads, k)
                  /\ roads[k].connects[2] \in CityIds \ ConnectedBefore(roads, k)
                  /\ \A c \in ConnectedBefore(roads, k) :
                        \A u \in CityIds \ ConnectedBefore(roads, k) :
                            PairDist2(road_cities, roads[k].connects)
                                <= PairDist2(road_cities, <<c, u>>)
            /\ ConnectedBefore(roads, Len(roads) + 1) = CityIds

\* Three settlements are connected, the first road reaching the third of
\* the list because the second lies farther from the first.
C22_Witness ==
    /\ road_network # <<>>
    /\ Len(road_cities) = 3
    /\ Len(road_network[1]) = 2
    /\ road_network[1][1].connects = <<1, 3>>
    /\ PairDist2(road_cities, <<1, 3>>) < PairDist2(road_cities, <<1, 2>>)

(***************************************************************************)
(* Properties of the parallel map generation                               *)
(***************************************************************************)

DenseLayers == {"continentalness", "temperature", "tectonic", "peaks_valleys",
                "erosion", "humidity"}

\* What generating cell (x, y) alone gives for a layer.
CellValue(call, layer, x, y) ==
    IF layer \in {"erosion", "humidity"}
    THEN generate_with_continentalness(layer, call.seed, x, y, call.detail,
            strategy_generate("continentalness", call.seed, x, y, call.detail))
    ELSE strategy_generate(layer, call.seed, x, y, call.detail)

C23_MesoBuilt ==
    /\ par.call.function = "generate_meso_full"
    /\ par.built # <<>>

(***************************************************************************)
(* Properties of the tile run                                              *)
(***************************************************************************)

RECURSIVE Incremented(_, _)
\* The pixels the chunks of a set have added to a layer so far.
Incremented(jobs, layer) ==
    IF jobs = {} THEN 0
    ELSE LET job == CHOOSE j \in jobs : TRUE
         IN  (IF run.next_layer[job] > layer
              THEN TileChunkLen(run.output_size, job[2]) ELSE 0)
             + Incremented(jobs \ {job}, layer)

TileJobs(tile) == {job \in DOMAIN run.next_layer : job[1] = tile}

\* C24: at every point of a run each counter holds the sum of the
\* increments made on it, a returned call has added output_size squared to
\* every layer, no counter exceeds total_pixels (no fraction exceeds 1), and
\* every counter equals total_pixels once every call has returned.
C24_NoIncrementIsLost ==
    \A layer \in LayerIds :
        LET count == Last(run.layer_progress.counters[layer])
        IN  /\ count = Incremented(DOMAIN run.next_layer, layer)
            /\ \A tile \in run.returned :
                  Incremented(TileJobs(tile), layer) = run.output_size * run.output_size
            /\ count <= run.layer_progress.total_pixels
            /\ fraction(run.layer_progress, count) <= 100
            /\ run.returned = 1..RunTiles => count = run.layer_progress.total_pixels

\* Every call of a run of tiles of more than one chunk has returned, every
\* chunk having incremented every layer.
C24_Witness ==
    /\ run.returned = 1..RunTiles
    /\ run.layer_progress.total_pixels > 0
    /\ TileChunks(run.output_size) > 1
    /\ \E layer \in LayerIds :
          Len(run.layer_progress.counters[layer]) = 1 + Cardinality(DOMAIN run.next_layer)

\* Chunks of two tiles are between their increments while another chunk has
\* made all of its own.
C24_ChunksInFlight ==
    /\ \A tile \in 1..RunTiles :
          \E job \in TileJobs(tile) : run.next_layer[job] \in 1..(NumLayers - 1)
    /\ \E job \in DOMAIN run.next_layer : run.next_layer[job] = NumLayers

(***************************************************************************)
(* Properties of the path simplification                                   *)
(***************************************************************************)

\* The move that leads to the i-th cell of a path.
MoveTo(path, i) == <<path[i][1] - path[i - 1][1], path[i][2] - path[i - 1][2]>>

\* The cells of a path at which the direction of travel changes, in order.
Turns(path) ==
    SelectSeq([i \in 1..(Len(path) - 2) |-> i + 1],
              LAMBDA i : MoveTo(path, i) # MoveTo(path, i + 1))

\* C25: the waypoints of a path are its start cell, the cells at which the
\* direction changes and its end cell, in path order and nothing else, and
\* no two successive waypoints are the same cell.
C25_WaypointsAreStartTurnsEnd ==
    (waypoints # <<>> /\ Len(walked) >= 2) =>
        /\ waypoints[1] =
              <<walked[1]>>
              \o [k \in 1..Len(Turns(walked)) |-> walked[Turns(walked)[k]]]
              \o <<walked[Len(walked)]>>
        /\ \A k \in 1..(Len(waypoints[1]) - 1) : waypoints[1][k] # waypoints[1][k + 1]

\* But for the start cell, which simplify_path lists twice, the waypoints are
\* the start cell, the turns and the end cell.
C25_StartTwiceThenTurnsAndEnd ==
    (waypoints # <<>> /\ Len(walked) >= 2) =>
        waypoints[1] =
            <<walked[1], walked[1]>>
            \o [k \in 1..Len(Turns(walked)) |-> walked[Turns(walked)[k]]]
            \o <<walked[Len(walked)]>>

(***************************************************************************)
(* Properties of the faction creation                                      *)
(***************************************************************************)

\* The factions that list a settlement as a member.
FactionsOf(factions, city_id) ==
    {f \in DOMAIN factions : InSeq(factions[f].settlement_ids, city_id)}

\* C26: when create_factions returns factions, the settlement at position
\* i of the list (from 0) is a member of the faction at position
\* i mod the number of factions and of no other, no faction lists a
\* settlement twice, and the member counts of two factions differ by at
\* most one.
C26_RoundRobinMembership ==
    (founded # <<>> /\ founded[1] # <<>>) =>
        LET factions == founded[1]
        IN  /\ \A i \in DOMAIN member_cities :
                  FactionsOf(factions, member_cities[i].id)
                      = {((i - 1) % Len(factions)) + 1}
            /\ \A f \in DOMAIN factions :
                  \A j, k \in DOMAIN factions[f].settlement_ids :
                      j # k => factions[f].settlement_ids[j] # factions[f].settlement_ids[k]
            /\ \A f, g \in DOMAIN factions :
                  Len(factions[f].settlement_ids) - Len(factions[g].settlement_ids)
                      \in -1..1

\* More settlements than factions were distributed: a faction has two
\* members and another has one.
C26_Witness ==
    /\ founded # <<>> /\ founded[1] # <<>>
    /\ Len(member_cities) > Len(founded[1])
    /\ \E f, g \in DOMAIN founded[1] :
          /\ Len(founded[1][f].settlement_ids) = 2
          /\ Len(founded[1][g].settlement_ids) = 1

(***************************************************************************)
(* Properties of the settlement placement                                  *)
(***************************************************************************)

\* The spacing the j-th placed settlement was held to.
SpacingOf(j) ==
    Max({settlement_spacing(placement.cultures[j]), MIN_SETTLEMENT_DISTANCE})

\* C27: placement never gives more settlements than max_settlements, every
\* settlement lies at least its culture's spacing, and at least
\* MIN_SETTLEMENT_DISTANCE, from each settlement placed before it, and any
\* two settlements are at least MIN_SETTLEMENT_DISTANCE apart.
C27_PlacedWithinCapAndSpaced ==
    pc # "Idle" =>
        LET cities == world_def.cities
        IN  /\ Len(cities) <= generator.config.max_settlements
            /\ \A i, j \in DOMAIN cities :
                  i < j => Dist2(cities[i].position, cities[j].position)
                               >= SpacingOf(j) * SpacingOf(j)
            /\ \A i, j \in DOMAIN cities :
                  i # j => Dist2(cities[i].position, cities[j].position)
                               >= MIN_SETTLEMENT_DISTANCE * MIN_SETTLEMENT_DISTANCE

\* Two settlements were placed and a candidate between them was passed over
\* for being nearer to one of them than its culture's spacing, though
\* farther than MIN_SETTLEMENT_DISTANCE, the cap not being reached.
C27_Witness ==
    /\ pc # "Idle"
    /\ Len(world_def.cities) = 2
    /\ Len(world_def.cities) < generator.config.max_settlements
    /\ \E k \in DOMAIN candidates :
          /\ \A i \in DOMAIN world_def.cities :
                world_def.cities[i].position # candidates[k].position
          /\ \E i \in DOMAIN world_def.cities :
                /\ Dist2(world_def.cities[i].position, candidates[k].position)
                      < settlement_spacing(candidates[k].culture_type)
                          * settlement_spacing(candidates[k].culture_type)
                /\ Dist2(world_def.cities[i].position, candidates[k].position)
                      >= MIN_SETTLEMENT_DISTANCE * MIN_SETTLEMENT_DISTANCE

\* The cap has cut the placement short: a candidate that respects every
\* spacing was left unplaced.
C27_CapReached ==
    /\ pc # "Idle"
    /\ Len(world_def.cities) = generator.config.max_settlements
    /\ Len(candidates) > Len(world_def.cities)
    /\ \E k \in DOMAIN candidates :
          \A i \in DOMAIN world_def.cities :
              Dist2(world_def.cities[i].position, candidates[k].position)
                  >= 100 * 100

(***************************************************************************)
(* Properties of the trade routes                                          *)
(***************************************************************************)

\* A road joins the two settlements, in either direction.
DirectRoad(roads, a, b) ==
    \E k \in DOMAIN roads : roads[k].connects \in {<<a, b>>, <<b, a>>}

\* The two factions have capitals and a road joins the capitals.
CapitalsJoined(handed, f, g) ==
    /\ handed.factions[f].capital_id # <<>>
    /\ handed.factions[g].capital_id # <<>>
    /\ DirectRoad(handed.roads, handed.factions[f].capital_id[1],
                  handed.factions[g].capital_id[1])

\* C28: a pair of factions has one trade route when a road joins their
\* capitals and none otherwise; a route lists the two factions and their
\* capitals, every route has the same importance, and no two routes share
\* an id.
C28_OneRoutePerJoinedCapitalPair ==
    trade_routes # <<>> =>
        LET routes == trade_routes[1]
            factions == trade_world.factions
        IN  /\ \A f, g \in DOMAIN factions :
                  f < g =>
                      Cardinality({r \in DOMAIN routes :
                                      {routes[r].faction_ids[k] :
                                          k \in DOMAIN routes[r].faction_ids}
                                      = {factions[f].id, factions[g].id}})
                          = IF CapitalsJoined(trade_world, f, g) THEN 1 ELSE 0
            /\ \A r \in DOMAIN routes :
                  \E f, g \in DOMAIN factions :
                      /\ f < g
                      /\ CapitalsJoined(trade_world, f, g)
                      /\ routes[r].faction_ids = <<factions[f].id, factions[g].id>>
                      /\ routes[r].settlement_ids
                            = <<factions[f].capital_id[1], factions[g].capital_id[1]>>
            /\ \A r \in DOMAIN routes : routes[r].importance = 70
            /\ \A r, s \in DOMAIN routes : r # s => routes[r].id # routes[s].id

\* Two routes were created, one of them along a road built from the second
\* faction's capital to the first's, while a third pair of capitals has no
\* road between them.
C28_Witness ==
    /\ trade_routes # <<>>
    /\ Len(trade_routes[1]) = 2
    /\ \A f \in DOMAIN trade_world.factions : trade_world.factions[f].capital_id # <<>>
    /\ \E k \in DOMAIN trade_world.roads :
          trade_world.roads[k].connects[1] > trade_world.roads[k].connects[2]

(***************************************************************************)
(* Properties of the generated and edited world description                *)
(***************************************************************************)

IdsOf(seq) == {seq[i].id : i \in DOMAIN seq}

Elements(seq) == {seq[i] : i \in DOMAIN seq}

\* Every road, trade route and territory owner of the world description
\* names settlements and factions the description holds.
RefersToPresentIds(w) ==
    /\ \A r \in DOMAIN w.roads : Elements(w.roads[r].connects) \subseteq IdsOf(w.cities)
    /\ \A r \in DOMAIN w.trade_routes :
          /\ Elements(w.trade_routes[r].settlement_ids) \subseteq IdsOf(w.cities)
          /\ Elements(w.trade_routes[r].faction_ids) \subseteq IdsOf(w.factions)
    /\ \A t \in Elements(w.territory_cache) :
          Elements(t.ownership) \ {0} \subseteq IdsOf(w.factions)

\* C29: when generate has returned, roads_built and trade_routes_created are
\* the lengths of the world description's roads and trade routes, and every
\* road, trade route and territory owner names only settlements and factions
\* the world description holds, whatever it held before and whichever flags
\* are set.
C29_DerivedCollectionsConsistent ==
    last_op = "generate" =>
        /\ civ_result[1].roads_built = Len(world.roads)
        /\ civ_result[1].trade_routes_created = Len(world.trade_routes)
        /\ RefersToPresentIds(world)

\* C30: after any generate calls and any placements and deletions of cities
\* in the editor, no two cities of the world description share an id.
C30_CityIdsAreUnique ==
    \A i, j \in DOMAIN world.cities : i # j => world.cities[i].id # world.cities[j].id

====
